---- MODULE Spec2Model ----
(***************************************************************************)
(* A model of the EagleView PDF measurement extractor                      *)
(* (pdf_processor/extractor.py).                                           *)
(*                                                                         *)
(* Text is modelled at two levels.  A string is a sequence of one-character*)
(* strings, so that str.replace, str.strip, str.isdigit, float() and the   *)
(* capture groups of the regular expressions are computed character by     *)
(* character.  The document text handed to the scalar patterns is a        *)
(* sequence of label occurrences "<label> = <token> <unit> (<n> <label>s)",*)
(* in the order in which re.finditer meets them.                           *)
(*                                                                         *)
(* Decimal numbers (Python floats) are kept in tenths: 1234.0 is 12340.    *)
(* The documents drawn carry at most one decimal digit.                    *)
(***************************************************************************)
EXTENDS Integers, Sequences, FiniteSets, TLC

\* ------------------------------------------------------------------------
\* Strings
\* ------------------------------------------------------------------------

\* F(e), with e evaluated once and F applied to its value (a local variable
\* of the code: operators that name an expression several times are written
\* with it so that the expression is computed once).
Bind(e, F(_)) == CHOOSE r \in {F(x) : x \in {e}} : TRUE

Digits == {"0", "1", "2", "3", "4", "5", "6", "7", "8", "9"}

DigitVal(c) ==
    CASE c = "0" -> 0 [] c = "1" -> 1 [] c = "2" -> 2 [] c = "3" -> 3
      [] c = "4" -> 4 [] c = "5" -> 5 [] c = "6" -> 6 [] c = "7" -> 7
      [] c = "8" -> 8 [] c = "9" -> 9

MinOf(S) == CHOOSE x \in S : \A y \in S : x <= y
MaxOf(S) == CHOOSE x \in S : \A y \in S : y <= x

\* str.isdigit(): non-empty and every character a digit.
IsDigit(s) == \E t \in {s} : Len(t) > 0 /\ \A i \in 1..Len(t) : t[i] \in Digits

\* str.replace(c, ''): every occurrence of the character removed.
Remove(s, c) == SelectSeq(s, LAMBDA x : x # c)

\* str.replace(c, d) for single characters.
ReplaceChar(s, c, d) ==
    Bind(s, LAMBDA t : [i \in 1..Len(t) |-> IF t[i] = c THEN d ELSE t[i]])

\* `c in s`.
Contains(s, c) == \E t \in {s} : \E i \in 1..Len(t) : t[i] = c

\* Every character of s is a blank (true of the empty string).
AllBlank(s) == \E t \in {s} : \A i \in 1..Len(t) : t[i] = " "

\* s without its leading and trailing characters c.
StripChar(s, c, left, right) ==
    Bind(s, LAMBDA t :
      Bind({i \in 1..Len(t) : t[i] # c}, LAMBDA keep :
        IF keep = {} THEN <<>>
        ELSE SubSeq(t, IF left THEN MinOf(keep) ELSE 1,
                       IF right THEN MaxOf(keep) ELSE Len(t))))

\* str.strip().
Strip(s) == StripChar(s, " ", TRUE, TRUE)

\* str.rstrip('%'): every trailing percent sign removed.
RStripPercent(s) == StripChar(s, "%", FALSE, TRUE)

\* The value of the digits s[1..i].
RECURSIVE DecUpTo(_, _)
DecUpTo(s, i) == IF i = 0 THEN 0 ELSE 10 * DecUpTo(s, i - 1) + DigitVal(s[i])

\* The value of a (possibly empty) run of digits.
DecValue(s) == Bind(s, LAMBDA t : DecUpTo(t, Len(t)))

\* The length of the longest run of digits that starts s.
DigitRun(s) ==
    Bind(s, LAMBDA t :
      Bind({i \in 1..Len(t) : t[i] \notin Digits}, LAMBDA stop :
        IF stop = {} THEN Len(t) ELSE MinOf(stop) - 1))

\* Position of the first "." of s, or 0.
DotPos(s) ==
    Bind(s, LAMBDA t :
      Bind({i \in 1..Len(t) : t[i] = "."}, LAMBDA dots :
        IF dots = {} THEN 0 ELSE MinOf(dots)))

\* s without the sign float() allows in front of the number.
DropSign(s) ==
    Bind(s, LAMBDA t :
      IF Len(t) > 0 /\ t[1] \in {"-", "+"} THEN SubSeq(t, 2, Len(t)) ELSE t)

\* float(s) succeeds: over the alphabet of the documents drawn (digits, ".",
\* ",", "/", "%", "-", "+", " " and letters) that is, after surrounding
\* blanks are dropped, an optional sign, then digits with at most one "."
\* and at least one digit.
FloatOk(s) ==
    \E t \in {DropSign(Strip(s))} :
        /\ Len(t) > 0
        /\ \A i \in 1..Len(t) : t[i] \in Digits \cup {"."}
        /\ Cardinality({i \in 1..Len(t) : t[i] = "."}) <= 1
        /\ \E i \in 1..Len(t) : t[i] \in Digits

\* The magnitude in tenths of an unsigned string on which float succeeds.
TenthsOf(t) ==
    Bind(DotPos(t), LAMBDA d :
        IF d = 0 THEN 10 * DecValue(t)
        ELSE 10 * DecValue(SubSeq(t, 1, d - 1))
             + (IF d < Len(t) THEN DigitVal(t[d + 1]) ELSE 0))

\* float(s) in tenths, for a string on which float succeeds.
FloatTenths(s) ==
    Bind(Strip(s), LAMBDA t :
        IF Len(t) > 0 /\ t[1] = "-" THEN 0 - TenthsOf(DropSign(t))
        ELSE TenthsOf(DropSign(t)))

\* ------------------------------------------------------------------------
\* Values: a float (in tenths), a string, or None
\* ------------------------------------------------------------------------

None == [kind |-> "none", n |-> 0, s |-> <<>>]
Num(n) == [kind |-> "num", n |-> n, s |-> <<>>]
Str(s) == [kind |-> "str", n |-> 0, s |-> s]

\* _clean_value without value.replace(',', ''): a thousands separator
\* reaches float() and the conversion raises.
_clean_value_keeps_commas(value) ==
    Bind(Remove(value, " "), LAMBDA t :
      IF FloatOk(t) THEN [ok |-> TRUE, value |-> Num(FloatTenths(t))]
      ELSE [ok |-> FALSE, value |-> None])

\* PDFMeasurementExtractor._clean_value: the float of the token with "," and
\* " " removed; ok is FALSE where float() raises ValueError.
_clean_value(value) ==
    Bind(Remove(Remove(value, ","), " "), LAMBDA t :
      IF FloatOk(t) THEN [ok |-> TRUE, value |-> Num(FloatTenths(t))]
      ELSE [ok |-> FALSE, value |-> None])

\* ------------------------------------------------------------------------
\* The pattern table (PDFMeasurementExtractor.__init__)
\* ------------------------------------------------------------------------

\* The keys of self.patterns, in the order of the dict.
MeasureTypes ==
    <<"total_area", "predominant_pitch", "ridges", "valleys", "eaves", "rakes",
      "hips", "flashing", "step_flashing", "penetrations_area",
      "penetrations_perimeter">>

MeasureNames == {MeasureTypes[i] : i \in 1..Len(MeasureTypes)}

\* The label texts each pattern's label part finds (re.IGNORECASE, searched
\* anywhere, so "Step flashing = 5 ft" also holds a match of 'flashing').
PatternLabels ==
    [total_area |-> {"Total Roof Area"},
     predominant_pitch |-> {"Predominant Pitch"},
     ridges |-> {"Ridges", "Total Ridges"},
     valleys |-> {"Valleys", "Total Valleys"},
     eaves |-> {"Eaves", "Eaves/Starter", "Total Eaves"},
     rakes |-> {"Rakes", "Total Rakes"},
     hips |-> {"Hips", "Total Hips"},
     flashing |-> {"Flashing", "Total Flashing", "Step flashing", "Total Step flashing"},
     step_flashing |-> {"Step flashing", "Total Step flashing"},
     penetrations_area |-> {"Total Penetrations Area"},
     penetrations_perimeter |-> {"Total Penetrations Perimeter"}]

\* The unit text each pattern requires after the number ("" : none).
PatternUnit ==
    [total_area |-> "sq ft", predominant_pitch |-> "", ridges |-> "ft",
     valleys |-> "ft", eaves |-> "ft", rakes |-> "ft", hips |-> "ft",
     flashing |-> "ft", step_flashing |-> "ft", penetrations_area |-> "sq ft",
     penetrations_perimeter |-> "ft"]

\* The patterns that require a trailing "(<n> Ridges)" / "(<n> Hips)"; the
\* group around it does not capture.
PatternNeedsCount == {"ridges", "hips"}

\* len(match.groups()): every pattern has exactly one capturing group.
PatternGroups(measure_type) == 1

\* The capturing group of a pattern on the token that follows "=":
\*   total_area          (\d+,?\d*)  then \s*sq\s*ft
\*   predominant_pitch   (\d+/\d+)   nothing required after it
\*   every other         (\d+)       then \s*ft
\* ok is FALSE where the pattern does not match there.
NoCapture == [ok |-> FALSE, group |-> <<>>]

CapturePitch(tok, r) ==
    Bind(IF r < Len(tok) /\ tok[r + 1] = "/"
         THEN DigitRun(SubSeq(tok, r + 2, Len(tok))) ELSE 0, LAMBDA r2 :
      IF r2 = 0 THEN NoCapture
      ELSE [ok |-> TRUE, group |-> SubSeq(tok, 1, r + 1 + r2)])

CaptureArea(tok, r) ==
    Bind(IF r < Len(tok) /\ tok[r + 1] = "," THEN 1 ELSE 0, LAMBDA c :
      Bind(r + c + DigitRun(SubSeq(tok, r + c + 1, Len(tok))), LAMBDA n :
        IF AllBlank(SubSeq(tok, n + 1, Len(tok)))
        THEN [ok |-> TRUE, group |-> SubSeq(tok, 1, n)]
        ELSE NoCapture))

CaptureLength(tok, r) ==
    IF AllBlank(SubSeq(tok, r + 1, Len(tok)))
    THEN [ok |-> TRUE, group |-> SubSeq(tok, 1, r)]
    ELSE NoCapture

Capture(measure_type, tok) ==
    Bind(DigitRun(tok), LAMBDA r :
      IF r = 0 THEN NoCapture
      ELSE IF measure_type = "predominant_pitch" THEN CapturePitch(tok, r)
      ELSE IF measure_type = "total_area" THEN CaptureArea(tok, r)
      ELSE CaptureLength(tok, r))

\* Whether the pattern of measure_type matches at the occurrence o of the
\* text (`if not value: continue` drops an empty group).
PatternMatches(measure_type, o) ==
    /\ o.label \in PatternLabels[measure_type]
    /\ PatternUnit[measure_type] # "" => o.unit = PatternUnit[measure_type]
    /\ measure_type \in PatternNeedsCount => o.cnt > 0
    /\ \E c \in {Capture(measure_type, o.tok)} : c.ok /\ Len(c.group) > 0

\* One match of _find_all_measurements.  raised is TRUE where _clean_value
\* raises ValueError on the captured group.
MatchOf(measure_type, o, pos) ==
    Bind(Capture(measure_type, o.tok).group, LAMBDA g :
      Bind(_clean_value(g), LAMBDA cv :
        [raised |-> measure_type # "predominant_pitch" /\ ~cv.ok,
         value |-> IF measure_type = "predominant_pitch" THEN Str(g) ELSE cv.value,
         match_start |-> pos,
         hasCount |-> PatternGroups(measure_type) > 1 /\ o.cnt > 0,
         count |-> IF PatternGroups(measure_type) > 1 THEN o.cnt ELSE 0]))

\* The positions 1..n in order.
Positions(n) == [i \in 1..n |-> i]

\* PDFMeasurementExtractor._find_all_measurements: the matches of one pattern
\* in text order; raised where a captured group fails to convert (the
\* ValueError of _clean_value is not caught here).
_find_all_measurements(text, measure_type) ==
    Bind(SelectSeq(Positions(Len(text)),
                   LAMBDA i : PatternMatches(measure_type, text[i])), LAMBDA at :
      Bind([k \in 1..Len(at) |-> MatchOf(measure_type, text[at[k]], at[k])], LAMBDA ms :
        IF \E k \in 1..Len(ms) : ms[k].raised
        THEN [raised |-> TRUE, found |-> <<>>]
        ELSE [raised |-> FALSE, found |-> ms]))

\* ------------------------------------------------------------------------
\* Consolidation
\* ------------------------------------------------------------------------

\* sum(m['value'] for m in found_measurements[1..i])
RECURSIVE SumUpTo(_, _)
SumUpTo(found, i) == IF i = 0 THEN 0 ELSE SumUpTo(found, i - 1) + found[i].value.n

\* _consolidate_measurements without the single-distinct-value branch: the
\* values of all matches are summed, equal or not.
_consolidate_measurements_always_sums(found_measurements) ==
    Bind(MaxOf({IF found_measurements[i].hasCount
                THEN found_measurements[i].count ELSE 0 :
                i \in 1..Len(found_measurements)}), LAMBDA max_count :
      Bind(\A i \in 1..Len(found_measurements) :
               found_measurements[i].value.kind = "num", LAMBDA numeric :
        [raised |-> ~numeric,
         value |-> IF numeric
                   THEN Num(SumUpTo(found_measurements, Len(found_measurements)))
                   ELSE None,
         hasCount |-> max_count # 0,
         count |-> max_count]))

\* PDFMeasurementExtractor._consolidate_measurements, for a non-empty list
\* (an empty one returns None and is never passed by the callers).
\* raised is TRUE where sum() meets a string value (TypeError).
\* max() has at least one element, m.get('count', 0), so its default None is
\* never used and max_count is a number.
_consolidate_measurements(found_measurements) ==
    Bind({found_measurements[i].value : i \in 1..Len(found_measurements)}, LAMBDA unique_values :
      Bind(MaxOf({IF found_measurements[i].hasCount
                  THEN found_measurements[i].count ELSE 0 :
                  i \in 1..Len(found_measurements)}), LAMBDA max_count :
        Bind(\A v \in unique_values : v.kind = "num", LAMBDA numeric :
          [raised |-> Cardinality(unique_values) # 1 /\ ~numeric,
           value |-> IF Cardinality(unique_values) = 1 THEN found_measurements[1].value
                     ELSE IF numeric
                          THEN Num(SumUpTo(found_measurements, Len(found_measurements)))
                     ELSE None,
           hasCount |-> max_count # 0,
           count |-> max_count])))

\* ------------------------------------------------------------------------
\* The Areas per Pitch table (line heuristic)
\* ------------------------------------------------------------------------

\* group(1) of  Areas\s+per\s+Pitch.*?\n(.*?)(?=\n\s*\n|\Z)  on the lines that
\* follow the header line: the lines up to the first line k >= 1 whose
\* successor is blank, or all of them.
SectionEnd(raw) ==
    Bind({k \in 1..(Len(raw) - 1) : AllBlank(raw[k + 1])}, LAMBDA ends :
      IF ends = {} THEN Len(raw) ELSE MinOf(ends))

\* [line.strip() for line in section_text.split('\n') if line.strip()]
SectionLines(raw) ==
    Bind(SubSeq(raw, 1, SectionEnd(raw)), LAMBDA sec :
      Bind([i \in 1..Len(sec) |-> Strip(sec[i])], LAMBDA stripped :
        SelectSeq(stripped, LAMBDA l : Len(l) > 0)))

\* The class the loop of _parse_areas_per_pitch gives a stripped line.
LineClass(line) ==
    IF Contains(line, "/") /\ IsDigit(Remove(Remove(line, "/"), " ")) THEN "pitch"
    ELSE IF Len(line) > 0 /\ line[Len(line)] = "%" THEN
        IF FloatOk(Strip(RStripPercent(line))) THEN "percentage" ELSE "none"
    ELSE
        IF FloatOk(Strip(Remove(line, ","))) THEN "area" ELSE "none"

\* The lines of one class, in order.
LinesOfClass(lines, class) == SelectSeq(lines, LAMBDA l : LineClass(l) = class)

\* pitches.append(line.strip())
PitchesOf(lines) ==
    Bind(LinesOfClass(lines, "pitch"), LAMBDA sel :
      [i \in 1..Len(sel) |-> Strip(sel[i])])

\* areas.append(float(line.replace(',', '').strip()))
AreasOf(lines) ==
    Bind(LinesOfClass(lines, "area"), LAMBDA sel :
      [i \in 1..Len(sel) |-> FloatTenths(Strip(Remove(sel[i], ",")))])

\* percentages.append(float(line.rstrip('%').strip()))
PercentagesOf(lines) ==
    Bind(LinesOfClass(lines, "percentage"), LAMBDA sel :
      [i \in 1..Len(sel) |-> FloatTenths(Strip(RStripPercent(sel[i])))])

Min3(a, b, c) ==
    IF a <= b /\ a <= c THEN a ELSE IF b <= c THEN b ELSE c

Abs(x) == IF x < 0 THEN -x ELSE x

EmptyDict == <<>>

\* dict[key] = value
DictPut(d, key, value) ==
    [k \in DOMAIN d \cup {key} |-> IF k = key THEN value ELSE d[k]]

\* The group test without abs(sum(group_percentages) - 100) < 1: every
\* complete group of three is accepted.
GroupValid_without_sum(pitches, areas, percentages, i) ==
    /\ i + 3 <= Len(pitches)
    /\ i + 3 <= Len(areas)
    /\ i + 3 <= Len(percentages)

\* The test on the group that starts at (0-based) index i: three pitches,
\* three areas, three percentages, and abs(sum(percentages) - 100) < 1.
GroupValid(pitches, areas, percentages, i) ==
    /\ i + 3 <= Len(pitches)
    /\ i + 3 <= Len(areas)
    /\ i + 3 <= Len(percentages)
    /\ Abs(percentages[i + 1] + percentages[i + 2] + percentages[i + 3] - 1000) < 10

\* The step of range(0, min(...), 3).
GroupStep == 3

\* for j in range(3): areas_per_pitch[pitch] = {...}
RECURSIVE PutGroup(_, _, _, _, _, _)
PutGroup(d, pitches, areas, percentages, i, j) ==
    IF j >= 3 THEN d
    ELSE Bind(DictPut(d, pitches[i + j + 1],
                      [area |-> areas[i + j + 1],
                       percentage |-> percentages[i + j + 1]]), LAMBDA d2 :
           PutGroup(d2, pitches, areas, percentages, i, j + 1))

\* for i in range(0, min(len(pitches), len(areas), len(percentages)), 3)
RECURSIVE GroupLoop(_, _, _, _, _)
GroupLoop(d, pitches, areas, percentages, i) ==
    IF i >= Min3(Len(pitches), Len(areas), Len(percentages)) THEN d
    ELSE Bind(IF GroupValid(pitches, areas, percentages, i)
              THEN PutGroup(d, pitches, areas, percentages, i, 0)
              ELSE d, LAMBDA d2 :
           GroupLoop(d2, pitches, areas, percentages, i + GroupStep))

\* The pairing of the three sequences of classified lines.
PairUp(pitches, areas, percentages) ==
    GroupLoop(EmptyDict, pitches, areas, percentages, 0)

\* sum(data['percentage'] for data in areas_per_pitch.values())
RECURSIVE SumPercentages(_, _)
SumPercentages(d, keys) ==
    IF keys = {} THEN 0
    ELSE \* the order of the sum does not matter for the tenths drawn
         Bind(CHOOSE k \in keys : TRUE, LAMBDA k :
           d[k].percentage + SumPercentages(d, keys \ {k}))

TotalPercentage(areas_per_pitch) ==
    SumPercentages(areas_per_pitch, DOMAIN areas_per_pitch)

\* The check of the total with a table that fails it dropped.
PercentageCheck_drops_table(areas_per_pitch) ==
    Bind(TotalPercentage(areas_per_pitch), LAMBDA total_percentage :
      Bind(areas_per_pitch # EmptyDict
             /\ ~(990 <= total_percentage /\ total_percentage <= 1010), LAMBDA off :
        [warning |-> off,
         areas_per_pitch |-> IF off THEN EmptyDict ELSE areas_per_pitch]))

\* if areas_per_pitch: ... if not (99.0 <= total_percentage <= 101.0):
\*     logger.warning(...)
\* in _parse_areas_per_pitch and again in process_pdf: warning says whether
\* the warning is logged, areas_per_pitch is the table after the check.
PercentageCheck(areas_per_pitch) ==
    Bind(TotalPercentage(areas_per_pitch), LAMBDA total_percentage :
      [warning |-> areas_per_pitch # EmptyDict
                     /\ ~(990 <= total_percentage /\ total_percentage <= 1010),
       areas_per_pitch |-> areas_per_pitch])

\* PDFMeasurementExtractor._parse_areas_per_pitch.  section.has says whether
\* the text holds an "Areas per Pitch" header; section.raw are the lines that
\* follow the header line.
_parse_areas_per_pitch(section) ==
    IF ~section.has THEN EmptyDict
    ELSE
        Bind(SectionLines(section.raw), LAMBDA lines :
          Bind(PitchesOf(lines), LAMBDA pitches :
            Bind(AreasOf(lines), LAMBDA areas :
              Bind(PercentagesOf(lines), LAMBDA percentages :
                PercentageCheck(PairUp(pitches, areas, percentages)).areas_per_pitch))))

\* The dictionary process_pdf stores: the key of a pitch is
\* "area_pitch_" + pitch.replace('/', '_') (the constant prefix is left out;
\* a pitch holds digits, "/" and blanks only, so no two pitches share a key).
PitchKeys(areas_per_pitch) ==
    Bind(areas_per_pitch, LAMBDA d :
      Bind({ReplaceChar(p, "/", "_") : p \in DOMAIN d}, LAMBDA keys :
        [k \in keys |-> d[CHOOSE p \in DOMAIN d : ReplaceChar(p, "/", "_") = k]]))

\* ------------------------------------------------------------------------
\* DocumentIntelligence._extract_areas_per_pitch
\* (pdf_processor/document_intelligence.py)
\* ------------------------------------------------------------------------

AreasPerPitchMarker ==
    <<"A", "r", "e", "a", "s", " ", "p", "e", "r", " ", "P", "i", "t", "c", "h">>

\* `t in s` for strings.
HasSubstring(s, t) ==
    \E i \in 1..(Len(s) - Len(t) + 1) : SubSeq(s, i, i + Len(t) - 1) = t

\* str.endswith('%').
EndsWithPercent(s) == \E t \in {s} : Len(t) > 0 /\ t[Len(t)] = "%"

\* '/' in content and all(part.isdigit() for part in content.split('/')):
\* digits and "/" only, at least one "/", and no part between them empty.
SlashedDigits(content) ==
    \E t \in {content} :
        /\ Contains(t, "/")
        /\ \A i \in 1..Len(t) : t[i] \in Digits \cup {"/"}
        /\ t[1] # "/" /\ t[Len(t)] # "/"
        /\ \A i \in 1..(Len(t) - 1) : ~(t[i] = "/" /\ t[i + 1] = "/")

\* any('Areas per Pitch' in cell.content for cell in table.cells)
IsPitchTable(table) ==
    \E i \in 1..Len(table) : HasSubstring(table[i].content, AreasPerPitchMarker)

\* pitch = None; area = None; percentage = None
NoRow == [pitch |-> <<>>, hasArea |-> FALSE, area |-> 0,
          hasPercentage |-> FALSE, percentage |-> 0]

\* if pitch and area is not None and percentage is not None
RowComplete(row) == Len(row.pitch) > 0 /\ row.hasArea /\ row.hasPercentage

\* The class the cell loop gives a stripped cell content.
CellClass(content) ==
    IF SlashedDigits(content) THEN "pitch"
    ELSE IF EndsWithPercent(content) THEN
        IF FloatOk(RStripPercent(content)) THEN "percentage" ELSE "none"
    ELSE IF IsDigit(Remove(Remove(content, ","), ".")) THEN
        IF FloatOk(Remove(content, ",")) THEN "area" ELSE "none"
    ELSE "none"

\* Lines 50-63: the accumulators of the row after one more cell.
ClassifyCell(row, cell_content) ==
    Bind(Strip(cell_content), LAMBDA content :
      Bind(CellClass(content), LAMBDA class :
        IF class = "pitch" THEN [row EXCEPT !.pitch = content]
        ELSE IF class = "percentage"
        THEN [row EXCEPT !.hasPercentage = TRUE,
                         !.percentage = FloatTenths(RStripPercent(content))]
        ELSE IF class = "area"
        THEN [row EXCEPT !.hasArea = TRUE,
                         !.area = FloatTenths(Remove(content, ","))]
        ELSE row))

\* Lines 37-48: a cell of another row stores the row before it, when that
\* row is complete, and resets the accumulators.
FlushRow(st, row_index) ==
    IF row_index # st.current_row
    THEN [current_row |-> row_index,
          row |-> NoRow,
          areas_per_pitch |->
              IF RowComplete(st.row)
              THEN DictPut(st.areas_per_pitch, st.row.pitch,
                           [area |-> st.row.area, percentage |-> st.row.percentage])
              ELSE st.areas_per_pitch]
    ELSE st

\* for cell in table.cells, up to and with the i-th cell.  Nothing follows
\* the loop: the accumulators of the last row are dropped with it.
RECURSIVE CellLoop(_, _, _)
CellLoop(areas_per_pitch, cells, i) ==
    IF i = 0
    THEN [current_row |-> -1, row |-> NoRow, areas_per_pitch |-> areas_per_pitch]
    ELSE Bind(CellLoop(areas_per_pitch, cells, i - 1), LAMBDA st :
           Bind(FlushRow(st, cells[i].row_index), LAMBDA st2 :
             [st2 EXCEPT !.row = ClassifyCell(st2.row, cells[i].content)]))

\* for table in result.tables, up to and with the i-th table.
RECURSIVE TableLoop(_, _)
TableLoop(tables, i) ==
    IF i = 0 THEN EmptyDict
    ELSE Bind(TableLoop(tables, i - 1), LAMBDA d :
           IF IsPitchTable(tables[i])
           THEN CellLoop(d, tables[i], Len(tables[i])).areas_per_pitch
           ELSE d)

\* Lines 75-100: the lines of the section in runs of three, a pitch line,
\* an area line and a percentage line; i is the 0-based start of the run.
ContentRunValid(lines, i) ==
    /\ i + 3 <= Len(lines)
    /\ SlashedDigits(lines[i + 1])
    /\ FloatOk(Remove(lines[i + 2], ","))
    /\ EndsWithPercent(lines[i + 3])
    /\ FloatOk(RStripPercent(lines[i + 3]))

RECURSIVE ContentLoop(_, _, _)
ContentLoop(d, lines, i) ==
    IF i >= Len(lines) THEN d
    ELSE Bind(IF ContentRunValid(lines, i)
              THEN DictPut(d, lines[i + 1],
                           [area |-> FloatTenths(Remove(lines[i + 2], ",")),
                            percentage |-> FloatTenths(RStripPercent(lines[i + 3]))])
              ELSE d, LAMBDA d2 :
           ContentLoop(d2, lines, i + 3))

\* Lines 66-100: the section of result.content, found by the regular
\* expression _parse_areas_per_pitch uses.
ContentStrategy(section) ==
    IF ~section.has THEN EmptyDict
    ELSE ContentLoop(EmptyDict, SectionLines(section.raw), 0)

\* Both strategies run one after the other on the same dictionary, the
\* section's entries added to the table's.
_extract_areas_per_pitch_merging(tables, section) ==
    Bind(TableLoop(tables, Len(tables)), LAMBDA areas_per_pitch :
      IF section.has
      THEN ContentLoop(areas_per_pitch, SectionLines(section.raw), 0)
      ELSE areas_per_pitch)

\* DocumentIntelligence._extract_areas_per_pitch on result.tables and the
\* section of result.content.
_extract_areas_per_pitch(tables, section) ==
    Bind(TableLoop(tables, Len(tables)), LAMBDA areas_per_pitch :
      IF areas_per_pitch = EmptyDict THEN ContentStrategy(section)
      ELSE areas_per_pitch)

\* ------------------------------------------------------------------------
\* The suggested waste row and the address
\* ------------------------------------------------------------------------

\* The text from the first "Waste Calculation" on is a sequence of lines,
\* the first of them the line of the header; a line is a sequence of items
\* [kind, tok]:
\*   "percent"  the text  <tok>%
\*   "area"     the text  Area (Sq ft) <tok>
\*   "squares"  the text  Squares * <tok>
\*   "word"     the text  <tok>
\* w.has says whether the text holds "Waste Calculation" at all.

AdditionalMarker == <<"A", "d", "d", "i", "t", "i", "o", "n", "a", "l">>
SuggestedMarker == <<"S", "u", "g", "g", "e", "s", "t", "e", "d">>

Item(kind, tok) == [kind |-> kind, tok |-> tok]

\* The longest run of digits that ends s, as (\d+)% captures it.
TrailingDigits(s) ==
    Bind(s, LAMBDA t :
      Bind({i \in 1..Len(t) : t[i] \notin Digits}, LAMBDA stop :
        IF stop = {} THEN t ELSE SubSeq(t, MaxOf(stop) + 1, Len(t))))

\* The group of  Area\s*\(Sq\s*ft\)\s*(\d+(?:,\d*)?)  on the text that follows
\* the label: digits, then, if a comma follows, the comma and the digits
\* after it.  Empty: no match.
WasteAreaGroup(tok) ==
    Bind(tok, LAMBDA t :
      Bind(DigitRun(t), LAMBDA n :
        IF n = 0 THEN <<>>
        ELSE IF n < Len(t) /\ t[n + 1] = ","
        THEN SubSeq(t, 1, n + 1 + DigitRun(SubSeq(t, n + 2, Len(t))))
        ELSE SubSeq(t, 1, n)))

\* The group of  Squares\s*\*\s*(\d+\.\d+)  on the text that follows the
\* label.  Empty: no match.
WasteSquaresGroup(tok) ==
    Bind(tok, LAMBDA t :
      Bind(DigitRun(t), LAMBDA n :
        IF n = 0 \/ n >= Len(t) \/ t[n + 1] # "." THEN <<>>
        ELSE Bind(DigitRun(SubSeq(t, n + 2, Len(t))), LAMBDA m :
               IF m = 0 THEN <<>> ELSE SubSeq(t, 1, n + 1 + m))))

\* What re.findall collects of an item for one of the three patterns.
ItemGroup(item, kind) ==
    IF item.kind # kind THEN <<>>
    ELSE IF kind = "percent" THEN TrailingDigits(item.tok)
    ELSE IF kind = "area" THEN WasteAreaGroup(item.tok)
    ELSE WasteSquaresGroup(item.tok)

\* The items of the lines, in order.
RECURSIVE ItemsUpTo(_, _)
ItemsUpTo(lines, i) ==
    IF i = 0 THEN <<>> ELSE ItemsUpTo(lines, i - 1) \o lines[i]

\* re.findall of one of the three patterns on waste_text.
FindAll(lines, kind) ==
    Bind(ItemsUpTo(lines, Len(lines)), LAMBDA items :
      Bind([i \in 1..Len(items) |-> ItemGroup(items[i], kind)], LAMBDA groups :
        SelectSeq(groups, LAMBDA g : Len(g) > 0)))

\* The item holds the word before which the section ends.
IsAdditional(item) == item.kind = "word" /\ HasSubstring(item.tok, AdditionalMarker)

\* Waste\s+Calculation.*?(?=Additional|\Z): the lines up to the first
\* "Additional", the line that holds it cut before it.
WasteText(lines) ==
    Bind({i \in 1..Len(lines) : \E j \in 1..Len(lines[i]) : IsAdditional(lines[i][j])},
         LAMBDA cut :
      IF cut = {} THEN lines
      ELSE Bind(MinOf(cut), LAMBDA i :
             Bind(MinOf({j \in 1..Len(lines[i]) : IsAdditional(lines[i][j])}), LAMBDA j :
               Append(SubSeq(lines, 1, i - 1), SubSeq(lines[i], 1, j - 1)))))

\* 'Suggested' in line
HasSuggested(line) ==
    \E j \in 1..Len(line) :
        line[j].kind = "word" /\ HasSubstring(line[j].tok, SuggestedMarker)

\* l.strip() and any(c.isdigit() for c in l)
HasDigit(line) ==
    \E j \in 1..Len(line) : \E c \in 1..Len(line[j].tok) : line[j].tok[c] \in Digits

\* The index as the number of all non-empty lines before the first line
\* that holds 'Suggested'.
SuggestedIndex_counts_every_line(lines) ==
    Bind({i \in 1..Len(lines) : HasSuggested(lines[i])}, LAMBDA marked :
      IF marked = {} THEN -1
      ELSE Cardinality({i \in 1..(MinOf(marked) - 1) : Len(lines[i]) > 0}))

\* Lines 231-237: the number of lines with a digit before the first line
\* that holds 'Suggested'; -1 stands for None.
SuggestedIndex(lines) ==
    Bind({i \in 1..Len(lines) : HasSuggested(lines[i])}, LAMBDA marked :
      IF marked = {} THEN -1
      ELSE Cardinality({i \in 1..(MinOf(marked) - 1) : HasDigit(lines[i])}))

\* None.  raised: an exception left the function (none does: the try of
\* lines 240-254 catches ValueError and IndexError).
NoWasteData ==
    [raised |-> FALSE, present |-> FALSE, percentage |-> 0, area |-> 0, squares |-> 0]

\* Lines 239-258 without the except clause: the IndexError of a short
\* sequence leaves the function.
WasteAt_uncaught(percentages, areas, squares, suggested_index) ==
    IF suggested_index >= 0 /\ suggested_index < Len(percentages) THEN
        Bind(suggested_index + 1, LAMBDA k :
          IF /\ FloatOk(percentages[k])
             /\ k <= Len(areas) /\ FloatOk(Remove(areas[k], ","))
             /\ k <= Len(squares) /\ FloatOk(squares[k])
          THEN [raised |-> FALSE, present |-> TRUE,
                percentage |-> FloatTenths(percentages[k]),
                area |-> FloatTenths(Remove(areas[k], ",")),
                squares |-> FloatTenths(squares[k])]
          ELSE [NoWasteData EXCEPT !.raised = TRUE])
    ELSE NoWasteData

\* Lines 239-258: the three values at suggested_index (0-based);
\* IndexError and ValueError are caught and give None.
WasteAt(percentages, areas, squares, suggested_index) ==
    IF suggested_index >= 0 /\ suggested_index < Len(percentages) THEN
        Bind(suggested_index + 1, LAMBDA k :
          IF /\ FloatOk(percentages[k])
             /\ k <= Len(areas) /\ FloatOk(Remove(areas[k], ","))
             /\ k <= Len(squares) /\ FloatOk(squares[k])
          THEN [raised |-> FALSE, present |-> TRUE,
                percentage |-> FloatTenths(percentages[k]),
                area |-> FloatTenths(Remove(areas[k], ",")),
                squares |-> FloatTenths(squares[k])]
          ELSE NoWasteData)
    ELSE NoWasteData

\* _parse_suggested_waste without the test of lines 211-213: group(0) of
\* no match raises.
_parse_suggested_waste_unguarded(w) ==
    IF ~w.has THEN [NoWasteData EXCEPT !.raised = TRUE]
    ELSE Bind(WasteText(w.lines), LAMBDA waste_text :
           WasteAt(FindAll(waste_text, "percent"), FindAll(waste_text, "area"),
                   FindAll(waste_text, "squares"), SuggestedIndex(waste_text)))

\* PDFMeasurementExtractor._parse_suggested_waste.
_parse_suggested_waste(w) ==
    IF ~w.has THEN NoWasteData
    ELSE Bind(WasteText(w.lines), LAMBDA waste_text :
           WasteAt(FindAll(waste_text, "percent"), FindAll(waste_text, "area"),
                   FindAll(waste_text, "squares"), SuggestedIndex(waste_text)))

UpperCase ==
    {"A", "B", "C", "D", "E", "F", "G", "H", "I", "J", "K", "L", "M",
     "N", "O", "P", "Q", "R", "S", "T", "U", "V", "W", "X", "Y", "Z"}

\* The number of blanks that start s.
BlankRun(s) ==
    Bind(s, LAMBDA t :
      Bind({i \in 1..Len(t) : t[i] # " "}, LAMBDA stop :
        IF stop = {} THEN Len(t) ELSE MinOf(stop) - 1))

\*  \s*([A-Z]{2})\s+(\d{5}(?:-\d{4})?)  on the text that follows a comma.
AddressTail(rest) ==
    Bind(rest, LAMBDA r :
      Bind(BlankRun(r), LAMBDA a :
        IF ~(a + 2 <= Len(r) /\ r[a + 1] \in UpperCase /\ r[a + 2] \in UpperCase)
        THEN [ok |-> FALSE, state |-> <<>>, zip_code |-> <<>>]
        ELSE Bind(BlankRun(SubSeq(r, a + 3, Len(r))), LAMBDA b :
               Bind(SubSeq(r, a + 3 + b, Len(r)), LAMBDA z :
                 IF b = 0 \/ DigitRun(z) < 5
                 THEN [ok |-> FALSE, state |-> <<>>, zip_code |-> <<>>]
                 ELSE [ok |-> TRUE,
                       state |-> SubSeq(r, a + 1, a + 2),
                       zip_code |->
                           IF /\ Len(z) >= 10 /\ z[6] = "-"
                              /\ DigitRun(SubSeq(z, 7, Len(z))) >= 4
                           THEN SubSeq(z, 1, 10) ELSE SubSeq(z, 1, 5)]))))

\*  ([^,]+),\s*([^,]+),  on the text between three commas (or the start of
\* the text and two commas): the second group is what follows the blanks
\* after the first comma, or the last of them when nothing else follows.
SecondGroup(between) ==
    Bind(between, LAMBDA t :
      IF BlankRun(t) = Len(t) THEN SubSeq(t, Len(t), Len(t))
      ELSE SubSeq(t, BlankRun(t) + 1, Len(t)))

\* self.address_pattern.search(text): the leftmost match.  A match starts
\* right after a comma or at the start of the text and spans the next two
\* commas.
AddressSearch(text) ==
    Bind(text, LAMBDA t :
      Bind({i \in 1..Len(t) : t[i] = ","}, LAMBDA commas :
        Bind({c \in commas :
                /\ \E d \in commas : d > c + 1
                /\ \A d \in commas : d < c => d < c - 1
                /\ c > 1
                /\ MinOf({d \in commas : d > c}) > c + 1
                /\ AddressTail(SubSeq(t, MinOf({d \in commas : d > c}) + 1, Len(t))).ok},
             LAMBDA firsts :
          IF firsts = {} THEN [matched |-> FALSE, groups |-> <<>>]
          ELSE Bind(MinOf(firsts), LAMBDA c1 :
                 Bind(MinOf({d \in commas : d > c1}), LAMBDA c2 :
                   Bind(AddressTail(SubSeq(t, c2 + 1, Len(t))), LAMBDA tail :
                     [matched |-> TRUE,
                      groups |->
                        <<SubSeq(t, IF \E d \in commas : d < c1
                                    THEN MaxOf({d \in commas : d < c1}) + 1 ELSE 1,
                                 c1 - 1),
                          SecondGroup(SubSeq(t, c1 + 1, c2 - 1)),
                          tail.state, tail.zip_code>>]))))))

\* PDFMeasurementExtractor._extract_address on the outcome of
\* address_pattern.search: matched, and the four captured groups.
NoAddress == [present |-> FALSE, street_address |-> <<>>, city |-> <<>>,
              state |-> <<>>, zip_code |-> <<>>]

\* _extract_address without the .strip() of the groups.
_extract_address_untrimmed(a) ==
    IF a.matched
    THEN [present |-> TRUE,
          street_address |-> a.groups[1],
          city |-> a.groups[2],
          state |-> a.groups[3],
          zip_code |-> a.groups[4]]
    ELSE NoAddress

_extract_address(a) ==
    IF a.matched
    THEN [present |-> TRUE,
          street_address |-> Strip(a.groups[1]),
          city |-> Strip(a.groups[2]),
          state |-> Strip(a.groups[3]),
          zip_code |-> Strip(a.groups[4])]
    ELSE NoAddress

\* ------------------------------------------------------------------------
\* The dictionaries the entry points build
\* ------------------------------------------------------------------------

\* One entry of the "measurements" mapping.  key: the name is a key of the
\* mapping; value: what is stored under it; unit: the unit stored with it
\* ("" : none is stored); hasCount, count: the count stored with it.
AbsentCell == [key |-> FALSE, value |-> None, unit |-> "", hasCount |-> FALSE, count |-> 0]
NoneCell == [key |-> TRUE, value |-> None, unit |-> "", hasCount |-> FALSE, count |-> 0]

\* measurements['measurements'][measure_type] = consolidated['value'] and
\* ... = m['value']: process_pdf stores the bare value.
ValueCell(v) == [key |-> TRUE, value |-> v, unit |-> "", hasCount |-> FALSE, count |-> 0]

\* measurements[measure_type] = consolidated: extract_measurements_from_bytes
\* stores the dictionary {"value", "count", "page"}.
ConsolidatedCell(c) ==
    [key |-> TRUE, value |-> c.value, unit |-> "", hasCount |-> c.hasCount,
     count |-> IF c.hasCount THEN c.count ELSE 0]

NoCons == [raised |-> FALSE, value |-> None, hasCount |-> FALSE, count |-> 0]

\* The dictionary a call starts from.
InitialMeasurements(e) ==
    [scalars |-> [m \in MeasureNames |-> IF e = "process_pdf" THEN NoneCell ELSE AbsentCell],
     areas_per_pitch |-> EmptyDict,
     address |-> NoAddress,
     waste |-> NoWasteData]

\* One turn of the loop over self.patterns.items().
\*   process_pdf: predominant_pitch keeps the first match's string, every
\*     other name is consolidated and its value stored;
\*   extract_measurements_from_bytes: every name is consolidated.
Consolidates(e, measure_type) ==
    e # "process_pdf" \/ measure_type # "predominant_pitch"

StepOutcome(e, measure_type, f, c) ==
    [error |-> IF f.raised THEN "ValueError: Invalid numeric value"
               ELSE IF c.raised THEN "TypeError: unsupported operand type(s) for +"
               ELSE "",
     consolidated |-> c,
     cell |-> IF f.raised \/ c.raised \/ Len(f.found) = 0
                 THEN (IF e = "process_pdf" THEN NoneCell ELSE AbsentCell)
              ELSE IF e = "process_pdf" THEN
                 (IF measure_type = "predominant_pitch" THEN ValueCell(f.found[1].value)
                  ELSE ValueCell(c.value))
              ELSE ConsolidatedCell(c)]

ScalarStep(e, text, measure_type) ==
    Bind(_find_all_measurements(text, measure_type), LAMBDA f :
      Bind(IF ~f.raised /\ Len(f.found) > 0 /\ Consolidates(e, measure_type)
           THEN _consolidate_measurements(f.found) ELSE NoCons, LAMBDA c :
        StepOutcome(e, measure_type, f, c)))

\* The whole loop: the first exception, in the order of the dict, ends it.
ScalarLoop(e, text) ==
    Bind([i \in 1..Len(MeasureTypes) |-> ScalarStep(e, text, MeasureTypes[i])], LAMBDA step :
      Bind({i \in 1..Len(MeasureTypes) : step[i].error # ""}, LAMBDA bad :
        [error |-> IF bad = {} THEN "" ELSE step[MinOf(bad)].error,
         consolidated |->
            [m \in MeasureNames |->
                step[CHOOSE i \in 1..Len(MeasureTypes) : MeasureTypes[i] = m].consolidated],
         scalars |->
            [m \in MeasureNames |->
                step[CHOOSE i \in 1..Len(MeasureTypes) : MeasureTypes[i] = m].cell]]))

\* The required-field test as a test of the key: 'total_area' not in
\* measurements['measurements'], which the initial dictionary never meets.
RequiredMissing_key_only(meas) == ~meas.scalars["total_area"].key

\* if measurements['measurements']['total_area'] is None: raise ValueError
RequiredMissing(meas) == meas.scalars["total_area"].value = None

\* What a caller sees of a call that raised: the exception, and no record.
Failure(error) ==
    [status |-> "error", error |-> error, record |-> InitialMeasurements("none")]

\* process_pdf run from its first line to its last on a document, with
\* nothing else running: the loop's first exception, else the waste parser's,
\* else the required-field error, else the dictionary returned.
ProcessPdfAlone(d) ==
    Bind(ScalarLoop("process_pdf", d.scalars), LAMBDA loop :
      Bind(_parse_suggested_waste(d.waste), LAMBDA w :
        IF loop.error # "" THEN Failure(loop.error)
        ELSE IF w.raised THEN Failure("IndexError: list index out of range")
        ELSE Bind([scalars |-> loop.scalars,
                   areas_per_pitch |-> PitchKeys(_parse_areas_per_pitch(d.pitch)),
                   address |-> _extract_address(d.address),
                   waste |-> w], LAMBDA m :
               IF RequiredMissing(m)
               THEN Failure("ValueError: Total Roof Area measurement is required but not found")
               ELSE [status |-> "ok", error |-> "",
                     record |-> [m EXCEPT !.areas_per_pitch =
                                   PercentageCheck(m.areas_per_pitch).areas_per_pitch]])))

\* extract_measurements_from_bytes run alone on a document.
ExtractFromBytesAlone(d) ==
    Bind(ScalarLoop("extract_measurements_from_bytes", d.scalars), LAMBDA loop :
        IF loop.error # "" THEN Failure(loop.error)
        ELSE [status |-> "ok", error |-> "",
              record |-> [scalars |-> loop.scalars,
                          areas_per_pitch |-> _parse_areas_per_pitch(d.pitch),
                          address |-> _extract_address(d.address),
                          waste |-> NoWasteData]])

\* The outcome of one call of entry point e on document d by a newly
\* constructed extractor.
RunAlone(e, d) ==
    IF e = "process_pdf" THEN ProcessPdfAlone(d) ELSE ExtractFromBytesAlone(d)

\* ------------------------------------------------------------------------
\* AzureBlobStorage: the blob names and the operations' replies
\* ------------------------------------------------------------------------

DigitChar(d) == CHOOSE c \in Digits : DigitVal(c) = d

TwoDigits(n) == <<DigitChar((n \div 10) % 10), DigitChar(n % 10)>>

\* datetime.utcnow().strftime("%Y%m%d_%H%M%S") for a clock that counts the
\* seconds of one day, 1970-01-01.
Timestamp(t) ==
    <<"1", "9", "7", "0", "0", "1", "0", "1", "_">>
        \o TwoDigits(t \div 3600) \o TwoDigits((t \div 60) % 60) \o TwoDigits(t % 60)

\* blob_name = f"{timestamp}_{filename}"
BlobNameOf(t, filename) == Timestamp(t) \o <<"_">> \o filename

NoReply ==
    [op |-> "none", name |-> <<>>, content |-> "None", fault |-> FALSE,
     status |-> "none", value |-> "None"]

\* No text has been classified yet.
NoClass == [text |-> <<>>, line |-> "none", cell |-> "none"]

\* No request has been handled yet.
NoRequest ==
    [handler |-> "none", report_id |-> <<>>, filename |-> <<>>, content |-> "None",
     outcome |-> "none", success |-> FALSE, data |-> "None", error |-> "",
     steps |-> <<>>, errors |-> <<>>, calls |-> <<>>, faults |-> {}, wrote |-> {}]

\* ------------------------------------------------------------------------
\* The documents drawn
\* ------------------------------------------------------------------------

\* The longest scalar text drawn, in label occurrences.
MaxOcc == 3

\* The longest column of the pitch table drawn.
MaxRows == 3

Occ(label, tok, unit, cnt) == [label |-> label, tok |-> tok, unit |-> unit, cnt |-> cnt]

TotalRoofArea1234 == Occ("Total Roof Area", <<"1", ",", "2", "3", "4">>, "sq ft", 0)
TotalAreaAllPitches1234 == Occ("Total Area (All Pitches)", <<"1", ",", "2", "3", "4">>, "sq ft", 0)
Pitch4 == Occ("Predominant Pitch", <<"4", "/", "1", "2">>, "", 0)
Pitch6 == Occ("Predominant Pitch", <<"6", "/", "1", "2">>, "", 0)
Ridges10of3 == Occ("Ridges", <<"1", "0">>, "ft", 3)
Valleys10 == Occ("Valleys", <<"1", "0">>, "ft", 0)
Valleys20 == Occ("Valleys", <<"2", "0">>, "ft", 0)
ValleysMalformed == Occ("Valleys", <<"1", "2", ",", ",", "3">>, "ft", 0)

Occurrences ==
    {TotalRoofArea1234, TotalAreaAllPitches1234, Pitch4, Pitch6, Ridges10of3,
     Valleys10, Valleys20, ValleysMalformed}

SeqsUpTo(S, n) == UNION {[1..k -> S] : k \in 0..n}

\* Texts for the address pattern.
ExampleAddressText ==
    <<"1", "2", "3", " ", "M", "a", "i", "n", " ", "S", "t", ",", " ", "S",
      "p", "r", "i", "n", "g", "f", "i", "e", "l", "d", ",", " ", "I", "L",
      " ", "6", "2", "7", "0", "4">>
PaddedAddressText ==
    <<" ", "1", "2", "3", " ", "M", "a", "i", "n", " ", "S", "t", ",", " ",
      " ", "S", "p", "r", "i", "n", "g", "f", "i", "e", "l", "d", " ", ",",
      " ", "I", "L", " ", " ", "6", "2", "7", "0", "4", "-", "1", "2", "3",
      "4">>
LaterAddressText ==
    <<"x", ",", " ", "1", " ", "E", "l", "m", ",", " ", "T", "r", "o", "y",
      " ", ",", " ", "N", "Y", " ", "1", "2", "0", "8", "0", "1">>
BlankCityText ==
    <<"a", ",", " ", " ", ",", "I", "L", " ", "6", "2", "7", "0", "4">>
NoCommaText ==
    <<"1", "2", "3", " ", "M", "a", "i", "n", " ", "S", "t", " ", "S", "p",
      "r", "i", "n", "g", "f", "i", "e", "l", "d", " ", "I", "L", " ", "6",
      "2", "7", "0", "4">>
LowerStateText ==
    <<"1", " ", "E", "l", "m", ",", " ", "T", "r", "o", "y", ",", " ", "i",
      "l", " ", "6", "2", "7", "0", "4">>
ShortZipText ==
    <<"1", " ", "E", "l", "m", ",", " ", "T", "r", "o", "y", ",", " ", "I",
      "L", " ", "6", "2", "7", "0">>

AddressTexts ==
    {<<>>, ExampleAddressText, PaddedAddressText, LaterAddressText, BlankCityText,
     NoCommaText, LowerStateText, ShortZipText}

\* What the search finds in a text without an address and in
\* " 123 Main St,  Springfield , IL  62704-1234".
NoAddressMatch == AddressSearch(<<>>)
MainStreet == AddressSearch(PaddedAddressText)

NoSection == [has |-> FALSE, raw |-> <<>>]
ThreeRowSection ==
    [has |-> TRUE,
     raw |-> << <<"4", "/", "1", "2">>, <<"6", "/", "1", "2">>, <<"8", "/", "1", "2">>,
                <<"1", ",", "0", "0", "0">>, <<"5", "0", "0">>, <<" ", "5", "0", "0">>,
                <<"5", "0", "%">>, <<"2", "5", "%">>, <<"2", "5", "%">>,
                <<>>,
                <<"1", "0", "%">> >>]

\* A line of the waste table that holds one scenario.
WasteRow(p, a, q) == <<Item("percent", p), Item("area", a), Item("squares", q)>>
WasteRow10 == WasteRow(<<"1", "0">>, <<"1", "0", "0">>, <<"1", ".", "0">>)
WasteRow15 == WasteRow(<<"1", "5">>, <<"1", "5", "0">>, <<"1", ".", "5">>)
WasteRow20 == WasteRow(<<"2", "0">>, <<"2", "0", "0">>, <<"2", ".", "0">>)
HeaderLine == <<Item("word", <<"W", "a", "s", "t", "e", " ", "C", "a", "l", "c">>)>>
SuggestedWord == Item("word", SuggestedMarker)

NoWasteSection == [has |-> FALSE, lines |-> <<>>]

\* 10%, 15% and 20% with their areas and squares, one scenario a line, the
\* second line marked.
WasteSecondRow ==
    [has |-> TRUE,
     lines |-> <<HeaderLine, WasteRow10, Append(WasteRow15, SuggestedWord), WasteRow20>>]

EmptyDocument ==
    [scalars |-> <<>>, address |-> NoAddressMatch, pitch |-> NoSection,
     waste |-> NoWasteSection, tables |-> <<>>]

\* The documents of Spec: every scalar text of at most MaxOcc occurrences,
\* alone or with an address, a pitch table and a waste section.
Documents ==
    {[scalars |-> s, address |-> rest.address, pitch |-> rest.pitch,
      waste |-> rest.waste, tables |-> <<>>] :
        s \in SeqsUpTo(Occurrences, MaxOcc),
        rest \in {[address |-> NoAddressMatch, pitch |-> NoSection,
                   waste |-> NoWasteSection],
                  [address |-> MainStreet, pitch |-> ThreeRowSection,
                   waste |-> WasteSecondRow]}}

PitchLines == {<<"4", "/", "1", "2">>, <<"6", "/", "1", "2">>}
AreaLines == {<<"1", ",", "0", "0", "0">>, <<"5", "0", "0">>}
\* The i-th line of the area column: i thousand, written "i,000".
AreaLine(i) == <<CHOOSE c \in Digits : DigitVal(c) = i, ",", "0", "0", "0">>
AreaColumns == {[i \in 1..k |-> AreaLine(i)] : k \in 0..MaxRows}
PercentLines == {<<"5", "0", "%">>, <<"2", "5", "%">>}

\* The documents of SpecPitch: a total area and a pitch table laid out as
\* EagleView does, the pitches, then the areas, then the percentages, each
\* column of at most MaxRows lines; the areas count the thousands.
PitchDocuments ==
    {[scalars |-> <<TotalRoofArea1234>>, address |-> NoAddressMatch,
      pitch |-> [has |-> TRUE, raw |-> p \o a \o c], waste |-> NoWasteSection,
      tables |-> <<>>] :
        p \in SeqsUpTo(PitchLines, MaxRows),
        a \in AreaColumns,
        c \in SeqsUpTo(PercentLines, MaxRows)}

\* The documents of SpecSerial and SpecShared: reports whose calls end
\* differently (no total area, a total area, consolidated valleys, a
\* malformed number), with and without an address, a pitch table and a
\* waste section.
SharedDocuments ==
    [scalars : {<<>>, <<TotalRoofArea1234>>,
                <<TotalRoofArea1234, Valleys10, Valleys20>>,
                <<TotalRoofArea1234, ValleysMalformed>>},
     address : {NoAddressMatch, MainStreet},
     pitch : {NoSection, ThreeRowSection},
     waste : {NoWasteSection, WasteSecondRow},
     tables : {<<>>}]

\* The documents of SpecRange: a total area and a pitch table of three rows,
\* with the numbers float() accepts that a roof cannot have.
RangePitches == <<<<"4", "/", "1", "2">>, <<"6", "/", "1", "2">>, <<"8", "/", "1", "2">>>>
RangeAreaLines == {<<"1", ",", "0", "0", "0">>, <<"-", "5", "0", "0">>}
RangePercentLines ==
    {<<"1", "5", "0", "%">>, <<"-", "5", "0", "%">>, <<"0", "%">>, <<"5", "0", "%">>,
     <<"1", "0", "0", ".", "5", "%">>}

RangeDocuments ==
    {[scalars |-> <<TotalRoofArea1234>>, address |-> NoAddressMatch,
      pitch |-> [has |-> TRUE, raw |-> RangePitches \o a \o c], waste |-> NoWasteSection,
      tables |-> <<>>] :
        a \in [1..3 -> RangeAreaLines],
        c \in [1..3 -> RangePercentLines]}

\* The last second of the clock of SpecStorage.
MaxSectionLines == 3

WasteCalculationMarker ==
    <<"W", "a", "s", "t", "e", " ", "C", "a", "l", "c", "u", "l", "a", "t", "i", "o", "n">>
StructureComplexityMarker ==
    <<"S", "t", "r", "u", "c", "t", "u", "r", "e", " ",
      "C", "o", "m", "p", "l", "e", "x", "i", "t", "y">>

\* The lines a report can hold after the "Areas per Pitch" header: a pitch,
\* an area, a percentage, an empty line, and the headers of the two sections
\* that follow the table.
SectionLineSet ==
    {<<"4", "/", "1", "2">>, <<"5", "0", "0">>, <<"1", "0", "%">>, <<>>,
     WasteCalculationMarker, StructureComplexityMarker}

\* The documents of SpecSection: a total area and at most MaxSectionLines
\* lines after the "Areas per Pitch" header.
SectionDocuments ==
    {[scalars |-> <<TotalRoofArea1234>>, address |-> NoAddressMatch,
      pitch |-> [has |-> TRUE, raw |-> raw], waste |-> NoWasteSection,
      tables |-> <<>>] :
        raw \in SeqsUpTo(SectionLineSet, MaxSectionLines)}

MaxTextLen == 3

\* The characters of the texts classified: a digit, the separators of a
\* pitch and of a number, the percent sign, a sign and a blank.
ClassChars == {"4", "/", ",", ".", "%", "-", " "}

\* The texts of SpecClassify: at most MaxTextLen characters, not all blank
\* (a blank line never reaches the loop over the lines).
Texts == {t \in SeqsUpTo(ClassChars, MaxTextLen) : ~AllBlank(t)}

\* The JSON text of an empty dictionary.
EmptyJson == "{}"

MaxClock == 2

\* The names callers give their PDFs ("<report_id>.pdf") and the contents
\* they upload.
Filenames == {<<"r", "1", ".", "p", "d", "f">>, <<"r", "2", ".", "p", "d", "f">>}
Contents == {"pdfA", "pdfB"}

\* The blob names asked of get_pdf: the names given to upload_pdf and the
\* names upload_pdf can have made of them.
BlobNames == Filenames \cup {BlobNameOf(t, f) : t \in 0..MaxClock, f \in Filenames}

\* The names given to the JSON blobs ("<report_id>.json") and the data
\* handed to store_json_data: a response dictionary, and an object that
\* json.dumps refuses.
JsonNames == {<<"r", "1", ".", "j", "s", "o", "n">>}
JsonData == {"jsonA", EmptyJson, "unserializable"}

\* The report ids asked of GET /reports/{report_id}: the id callers give
\* POST /process-pdf, and the ids under which upload_pdf can have stored its
\* PDF.
GivenId == <<"r", "1">>
ReportIds == {GivenId} \cup {Timestamp(t) \o <<"_">> \o GivenId : t \in 0..MaxClock}

\* The filenames of the files posted.
UploadNames ==
    {<<"r", "1", ".", "p", "d", "f">>, <<"R", "1", ".", "P", "D", "F">>,
     <<"n", "o", "t", "e", "s", ".", "t", "x", "t">>}

\* The report a PDF content holds: "pdfA" states a total roof area, "pdfB"
\* states none.
PdfDocument(content) ==
    IF content = "pdfA"
    THEN [EmptyDocument EXCEPT !.scalars = <<TotalRoofArea1234>>]
    ELSE EmptyDocument

\* The most lines drawn under the header of a waste section.
MaxWasteLines == 3

\* The lines drawn: a scenario, a marked scenario, the marker alone, a
\* percentage alone, a blank line, a line of text with a digit, the word
\* that ends the section, and a scenario whose squares have no decimals.
WasteLines ==
    {WasteRow10, WasteRow15, WasteRow20,
     Append(WasteRow15, SuggestedWord), <<SuggestedWord>>,
     <<Item("percent", <<"2", "0">>)>>, <<>>,
     <<Item("word", <<"P", "a", "g", "e", " ", "2">>)>>,
     <<Item("word", AdditionalMarker)>>,
     WasteRow(<<"2", "0">>, <<"2", "0", "0">>, <<"2">>)}

\* The documents of SpecWaste: a total area and a waste section of at most
\* MaxWasteLines lines under its header.
WasteDocuments ==
    {[scalars |-> <<TotalRoofArea1234>>, address |-> NoAddressMatch,
      pitch |-> NoSection, waste |-> [has |-> TRUE, lines |-> <<HeaderLine>> \o l],
      tables |-> <<>>] : l \in SeqsUpTo(WasteLines, MaxWasteLines)}

\* The documents of SpecAddress: each of the address texts, with and
\* without a total area.
AddressDocuments ==
    {[scalars |-> sc, address |-> AddressSearch(t), pitch |-> NoSection,
      waste |-> NoWasteSection, tables |-> <<>>] :
        sc \in {<<>>, <<TotalRoofArea1234>>, <<Valleys10>>}, t \in AddressTexts}

\* The most data rows of a table drawn.
MaxTableRows == 2

Cell(row_index, content) == [row_index |-> row_index, content |-> content]

\* The cells of a data row: a pitch, an area and a percentage, or a pitch
\* and an area only.
CompleteRows ==
    {<<p, a, c>> : p \in PitchLines, a \in AreaLines, c \in PercentLines}
RowsDrawn == CompleteRows \cup {<<<<"8", "/", "1", "2">>, <<"7", "5", "0">>>>}

\* A table under its header row, in the order in which the reader lists
\* the cells: row by row.
RECURSIVE RowCells(_, _)
RowCells(rows, i) ==
    IF i = 0 THEN <<Cell(0, <<" ">> \o AreasPerPitchMarker)>>
    ELSE RowCells(rows, i - 1)
         \o [j \in 1..Len(rows[i]) |-> Cell(i, rows[i][j])]

TableOf(rows) == RowCells(rows, Len(rows))

\* A content section of one run of three lines.
OneRunSection ==
    [has |-> TRUE,
     raw |-> << <<"9", "/", "1", "2">>, <<"2", ",", "0", "0", "0">>,
                <<"1", "0", "0", "%">> >>]

\* The documents of SpecTables: an analysis result with one pitch table of
\* at most MaxTableRows data rows, with or without a section in its content.
TableDocuments ==
    {[scalars |-> <<>>, address |-> NoAddressMatch, pitch |-> sec,
      waste |-> NoWasteSection, tables |-> <<TableOf(rows)>>] :
        rows \in SeqsUpTo(RowsDrawn, MaxTableRows),
        sec \in {NoSection, OneRunSection}}

\* ------------------------------------------------------------------------
\* The state machine: the calls of the two entry points on one extractor
\* ------------------------------------------------------------------------

VARIABLES
    doc,            \* the document of the call in progress (or of the last one)
    entry,          \* the entry point called
    pc,             \* where the call stands
    measurements,   \* the call's local dictionary
    consolidated,   \* the loop's consolidated results, by measurement name
    result,         \* how the call ended, and the record it returned
    self,           \* the extractor's attributes: patterns, address_pattern
    other,          \* the frames of the calls the event loop has suspended
    blobs,          \* the storage container: blob name -> content
    now,            \* the UTC clock, in seconds
    reply,          \* the last blob operation: its arguments and what it returned
    classified,     \* the last text classified, and its class in either strategy
    http            \* the last HTTP request and how the handler answered it

vars == <<doc, entry, pc, measurements, consolidated, result, self, other,
          blobs, now, reply, classified, http>>

NoResult == [status |-> "none", error |-> "", record |-> InitialMeasurements("none")]

\* What __init__ leaves in the instance: the pattern table, by its keys in
\* the order of the dict, and the address pattern.
Extractor == [patterns |-> MeasureTypes, address_pattern |-> "address_pattern"]

\* The frame of a request that has not called the extractor yet.
NoFrame ==
    [doc |-> EmptyDocument, entry |-> "none", pc |-> "idle",
     measurements |-> InitialMeasurements("none"),
     consolidated |-> [m \in MeasureNames |-> NoCons],
     result |-> NoResult]

Init ==
    /\ doc = EmptyDocument
    /\ entry = "none"
    /\ pc = "idle"
    /\ measurements = InitialMeasurements("none")
    /\ consolidated = [m \in MeasureNames |-> NoCons]
    /\ result = NoResult
    /\ self = Extractor
    /\ other = <<>>
    /\ blobs = EmptyDict
    /\ now = 0
    /\ reply = NoReply
    /\ classified = NoClass
    /\ http = NoRequest

Raise(error) ==
    /\ pc' = "done"
    /\ result' = [status |-> "error", error |-> error, record |-> InitialMeasurements("none")]

\* A caller hands process_pdf a document.
CallProcessPdf(D) ==
    /\ pc = "idle"
    /\ \E d \in D : doc' = d
    /\ entry' = "process_pdf"
    /\ pc' = "pp_address"
    /\ measurements' = InitialMeasurements("process_pdf")
    /\ consolidated' = [m \in MeasureNames |-> NoCons]
    /\ result' = NoResult
    /\ UNCHANGED <<self, classified, http, other, blobs, now, reply>>

\* A caller hands extract_measurements_from_bytes a document.
CallExtractFromBytes(D) ==
    /\ pc = "idle"
    /\ \E d \in D : doc' = d
    /\ entry' = "extract_measurements_from_bytes"
    /\ pc' = "eb_scalars"
    /\ measurements' = InitialMeasurements("extract_measurements_from_bytes")
    /\ consolidated' = [m \in MeasureNames |-> NoCons]
    /\ result' = NoResult
    /\ UNCHANGED <<self, classified, http, other, blobs, now, reply>>

\* The address step with a pattern object that keeps a position from one
\* search to the next, so that only the first search of the instance starts
\* at the head of the text.
PP_Address_stateful_pattern ==
    /\ pc = "pp_address"
    /\ measurements' =
         [measurements EXCEPT !.address =
            IF self.address_pattern = "address_pattern"
            THEN _extract_address(doc.address) ELSE NoAddress]
    /\ self' = [self EXCEPT !.address_pattern = "address_pattern, past the text"]
    /\ pc' = "pp_scalars"
    /\ UNCHANGED <<doc, entry, consolidated, result, other, blobs, now, reply,
                   classified, http>>

\* process_pdf: the address.
PP_Address ==
    /\ pc = "pp_address"
    /\ measurements' = [measurements EXCEPT !.address = _extract_address(doc.address)]
    /\ pc' = "pp_scalars"
    /\ UNCHANGED <<doc, entry, consolidated, result>>
    /\ UNCHANGED <<self, classified, http, other, blobs, now, reply>>

\* process_pdf: the loop over the patterns.
PP_Scalars ==
    /\ pc = "pp_scalars"
    /\ \E loop \in {ScalarLoop("process_pdf", doc.scalars)} :
        IF loop.error # ""
        THEN Raise(loop.error) /\ UNCHANGED <<measurements, consolidated>>
        ELSE /\ measurements' = [measurements EXCEPT !.scalars = loop.scalars]
             /\ consolidated' = loop.consolidated
             /\ pc' = "pp_pitch"
             /\ UNCHANGED result
    /\ UNCHANGED <<doc, entry>>
    /\ UNCHANGED <<self, classified, http, other, blobs, now, reply>>

\* process_pdf: the areas per pitch.
PP_AreasPerPitch ==
    /\ pc = "pp_pitch"
    /\ measurements' =
         [measurements EXCEPT !.areas_per_pitch = PitchKeys(_parse_areas_per_pitch(doc.pitch))]
    /\ pc' = "pp_waste"
    /\ UNCHANGED <<doc, entry, consolidated, result>>
    /\ UNCHANGED <<self, classified, http, other, blobs, now, reply>>

\* process_pdf: the suggested waste.
PP_SuggestedWaste ==
    /\ pc = "pp_waste"
    /\ \E suggested_waste \in {_parse_suggested_waste(doc.waste)} :
        IF suggested_waste.raised
        THEN Raise("IndexError: list index out of range") /\ UNCHANGED measurements
        ELSE /\ measurements' = [measurements EXCEPT !.waste = suggested_waste]
             /\ pc' = "pp_validate"
             /\ UNCHANGED result
    /\ UNCHANGED <<doc, entry, consolidated>>
    /\ UNCHANGED <<self, classified, http, other, blobs, now, reply>>

\* process_pdf: the required total area, the (logged) percentage check and
\* the return.
PP_Validate ==
    /\ pc = "pp_validate"
    /\ IF RequiredMissing(measurements)
       THEN Raise("ValueError: Total Roof Area measurement is required but not found")
       ELSE /\ pc' = "done"
            /\ result' =
                 [status |-> "ok", error |-> "",
                  record |-> [measurements EXCEPT !.areas_per_pitch =
                                PercentageCheck(measurements.areas_per_pitch).areas_per_pitch]]
    /\ UNCHANGED <<doc, entry, measurements, consolidated>>
    /\ UNCHANGED <<self, classified, http, other, blobs, now, reply>>

\* extract_measurements_from_bytes: the loop over the patterns.
EB_Scalars ==
    /\ pc = "eb_scalars"
    /\ \E loop \in {ScalarLoop("extract_measurements_from_bytes", doc.scalars)} :
        IF loop.error # ""
        THEN Raise(loop.error) /\ UNCHANGED <<measurements, consolidated>>
        ELSE /\ measurements' = [measurements EXCEPT !.scalars = loop.scalars]
             /\ consolidated' = loop.consolidated
             /\ pc' = "eb_pitch"
             /\ UNCHANGED result
    /\ UNCHANGED <<doc, entry>>
    /\ UNCHANGED <<self, classified, http, other, blobs, now, reply>>

\* extract_measurements_from_bytes: the areas per pitch, kept under the
\* pitch itself.
EB_AreasPerPitch ==
    /\ pc = "eb_pitch"
    /\ measurements' =
         [measurements EXCEPT !.areas_per_pitch = _parse_areas_per_pitch(doc.pitch)]
    /\ pc' = "eb_address"
    /\ UNCHANGED <<doc, entry, consolidated, result>>
    /\ UNCHANGED <<self, classified, http, other, blobs, now, reply>>

\* extract_measurements_from_bytes: the address and the return.
EB_AddressReturn ==
    /\ pc = "eb_address"
    /\ \E m \in {[measurements EXCEPT !.address = _extract_address(doc.address)]} :
        /\ measurements' = m
        /\ result' = [status |-> "ok", error |-> "", record |-> m]
    /\ pc' = "done"
    /\ UNCHANGED <<doc, entry, consolidated>>
    /\ UNCHANGED <<self, classified, http, other, blobs, now, reply>>

\* A caller hands DocumentIntelligence.analyze_document a document; doc
\* holds what the analysis client returns for it.
CallAnalyzeDocument(D) ==
    /\ pc = "idle"
    /\ \E d \in D : doc' = d
    /\ entry' = "analyze_document"
    /\ pc' = "di_pitch"
    /\ measurements' = InitialMeasurements("analyze_document")
    /\ consolidated' = [m \in MeasureNames |-> NoCons]
    /\ result' = NoResult
    /\ UNCHANGED <<self, classified, http, other, blobs, now, reply>>

\* analyze_document: areas_per_pitch = self._extract_areas_per_pitch(result).
DI_AreasPerPitch ==
    /\ pc = "di_pitch"
    /\ measurements' =
         [measurements EXCEPT !.areas_per_pitch =
            _extract_areas_per_pitch(doc.tables, doc.pitch)]
    /\ pc' = "di_return"
    /\ UNCHANGED <<doc, entry, consolidated, result>>
    /\ UNCHANGED <<self, classified, http, other, blobs, now, reply>>

\* analyze_document: the return.  Of the dictionary returned the model keeps
\* 'areas_per_pitch'.
DI_Return ==
    /\ pc = "di_return"
    /\ result' = [status |-> "ok", error |-> "", record |-> measurements]
    /\ pc' = "done"
    /\ UNCHANGED <<doc, entry, measurements, consolidated>>
    /\ UNCHANGED <<self, classified, http, other, blobs, now, reply>>

\* The caller has taken the record or the exception; nothing of the call is
\* kept by the extractor, whose only attributes are the patterns.
Return ==
    /\ pc = "done"
    /\ doc' = EmptyDocument
    /\ entry' = "none"
    /\ pc' = "idle"
    /\ measurements' = InitialMeasurements("none")
    /\ consolidated' = [m \in MeasureNames |-> NoCons]
    /\ result' = NoResult
    /\ UNCHANGED <<self, classified, http, other, blobs, now, reply>>

\* The switch with the dictionary kept in one place for both calls, as an
\* attribute of the instance would be.
Switch_sharing_measurements ==
    /\ \E resumed \in {IF other = <<>> THEN NoFrame ELSE other[1]} :
        /\ doc' = resumed.doc
        /\ entry' = resumed.entry
        /\ pc' = resumed.pc
        /\ consolidated' = resumed.consolidated
        /\ result' = resumed.result
        /\ other' = <<[doc |-> doc, entry |-> entry, pc |-> pc,
                       measurements |-> resumed.measurements,
                       consolidated |-> consolidated, result |-> result]>>
    /\ UNCHANGED <<measurements, self, classified, http, blobs, now, reply>>

\* The event loop suspends the running request and resumes the other one,
\* or a request that has just arrived: each call's locals go with its own
\* frame, the instance stays.
Switch ==
    /\ \E resumed \in {IF other = <<>> THEN NoFrame ELSE other[1]} :
        /\ doc' = resumed.doc
        /\ entry' = resumed.entry
        /\ pc' = resumed.pc
        /\ measurements' = resumed.measurements
        /\ consolidated' = resumed.consolidated
        /\ result' = resumed.result
    /\ other' = <<[doc |-> doc, entry |-> entry, pc |-> pc,
                   measurements |-> measurements,
                   consolidated |-> consolidated, result |-> result]>>
    /\ UNCHANGED <<self, classified, http, blobs, now, reply>>

\* A second passes.
Tick ==
    /\ now < MaxClock
    /\ now' = now + 1
    /\ UNCHANGED <<doc, entry, pc, measurements, consolidated, result, self, classified, http, other,
                   blobs, reply>>

\* upload_pdf(file, filename): the blob is named after the clock and the
\* filename and written with overwrite=True; a failure of the storage
\* service is raised to the caller.
UploadPdf ==
    /\ \E file \in Contents, filename \in Filenames, fault \in BOOLEAN :
        IF fault
        THEN /\ reply' = [op |-> "upload_pdf", name |-> filename, content |-> file,
                          fault |-> TRUE, status |-> "raised", value |-> "None"]
             /\ UNCHANGED blobs
        ELSE /\ blobs' = DictPut(blobs, BlobNameOf(now, filename), file)
             /\ reply' = [op |-> "upload_pdf", name |-> filename, content |-> file,
                          fault |-> FALSE, status |-> "ok", value |-> "url"]
    /\ UNCHANGED <<doc, entry, pc, measurements, consolidated, result, self, classified, http, other, now>>

\* get_pdf letting the failure of the download out.
GetPdf_raising ==
    /\ \E blob_name \in BlobNames, fault \in BOOLEAN :
        reply' = [op |-> "get_pdf", name |-> blob_name, content |-> "None",
                  fault |-> fault,
                  status |-> IF ~fault /\ blob_name \in DOMAIN blobs
                             THEN "returned" ELSE "raised",
                  value |-> IF ~fault /\ blob_name \in DOMAIN blobs
                            THEN blobs[blob_name] ELSE "None"]
    /\ UNCHANGED <<doc, entry, pc, measurements, consolidated, result, self, classified, http, other,
                   blobs, now>>

\* get_pdf(blob_name): the content of the blob of that name; None when the
\* blob does not exist or the download fails.
GetPdf ==
    /\ \E blob_name \in BlobNames, fault \in BOOLEAN :
        reply' = [op |-> "get_pdf", name |-> blob_name, content |-> "None",
                  fault |-> fault, status |-> "returned",
                  value |-> IF ~fault /\ blob_name \in DOMAIN blobs
                            THEN blobs[blob_name] ELSE "None"]
    /\ UNCHANGED <<doc, entry, pc, measurements, consolidated, result, self, classified, http, other,
                   blobs, now>>

\* json.loads succeeds on what store_json_data wrote, not on a PDF.
IsJson(content) == content \in JsonData

\* get_json_data(blob_name): the parsed content of the blob; None when the
\* blob does not exist, the download fails or the content is no JSON.
GetJsonData ==
    /\ \E blob_name \in JsonNames \cup Filenames, fault \in BOOLEAN :
        reply' = [op |-> "get_json_data", name |-> blob_name, content |-> "None",
                  fault |-> fault, status |-> "returned",
                  value |-> IF ~fault /\ blob_name \in DOMAIN blobs
                               /\ IsJson(blobs[blob_name])
                            THEN blobs[blob_name] ELSE "None"]
    /\ UNCHANGED <<doc, entry, pc, measurements, consolidated, result, self, classified, http, other,
                   blobs, now>>

\* dict.pop: the dictionary without the key.
DictRemove(d, key) == [k \in DOMAIN d \ {key} |-> d[k]]

\* delete_pdf(blob_name): True when the blob was deleted; False when it does
\* not exist or the service fails.
DeletePdf ==
    /\ \E blob_name \in BlobNames \cup JsonNames, fault \in BOOLEAN :
        IF ~fault /\ blob_name \in DOMAIN blobs
        THEN /\ blobs' = DictRemove(blobs, blob_name)
             /\ reply' = [op |-> "delete_pdf", name |-> blob_name, content |-> "None",
                          fault |-> FALSE, status |-> "returned", value |-> "True"]
        ELSE /\ UNCHANGED blobs
             /\ reply' = [op |-> "delete_pdf", name |-> blob_name, content |-> "None",
                          fault |-> fault, status |-> "returned", value |-> "False"]
    /\ UNCHANGED <<doc, entry, pc, measurements, consolidated, result, self, classified, http, other, now>>

\* store_json_data(blob_name, data): True when json.dumps(data) was written
\* with overwrite=True; False when json.dumps or the upload fails.
StoreJsonData ==
    /\ \E blob_name \in JsonNames, data \in JsonData, fault \in BOOLEAN :
        IF ~fault /\ data # "unserializable"
        THEN /\ blobs' = DictPut(blobs, blob_name, data)
             /\ reply' = [op |-> "store_json_data", name |-> blob_name, content |-> data,
                          fault |-> FALSE, status |-> "returned", value |-> "True"]
        ELSE /\ UNCHANGED blobs
             /\ reply' = [op |-> "store_json_data", name |-> blob_name, content |-> data,
                          fault |-> fault, status |-> "returned", value |-> "False"]
    /\ UNCHANGED <<doc, entry, pc, measurements, consolidated, result, self, classified, http, other, now>>

\* ------------------------------------------------------------------------
\* The HTTP handlers (main.py)
\* ------------------------------------------------------------------------

DotJson == <<".", "j", "s", "o", "n">>
DotPdf == <<".", "p", "d", "f">>

\* str.lower(), on the letters of the filenames drawn.
LowerChar(c) ==
    IF c = "P" THEN "p" ELSE IF c = "D" THEN "d" ELSE IF c = "F" THEN "f"
    ELSE IF c = "R" THEN "r" ELSE c
Lower(s) == Bind(s, LAMBDA t : [i \in 1..Len(t) |-> LowerChar(t[i])])

\* str.endswith(suffix).
EndsWith(s, suffix) ==
    /\ Len(s) >= Len(suffix)
    /\ SubSeq(s, Len(s) - Len(suffix) + 1, Len(s)) = suffix

\* `if report_data:` -- None and an empty dictionary are false.
Truthy(data) == data \notin {"None", EmptyJson}

\* The fields of ProcessingResponse without a default.
RequiredFields == {"filename", "file_url", "report_id", "measurements"}

\* ProcessingResponse(**fields) validates: every required field is given.
Validates(fields) == RequiredFields \subseteq fields

\* The keys of response_data, and the keyword arguments of the error
\* response of the except clause.
ResponseDataKeys ==
    {"success", "filename", "measurements", "areas_per_pitch", "address_info",
     "total_area", "patterns_used"}
ErrorResponseKeys == {"success", "filename", "measurements", "error"}

\* pdf_extractor.process_pdf on a PDF content.
ExtractPdf(content) == ProcessPdfAlone(PdfDocument(content))

\* The dictionary a handler builds of a successful extraction, as the JSON
\* text json.dumps makes of it and json.loads reads back.
ResponseData(extraction) == "jsonA"

\* The calls of a handler on which the storage service can fail.
StorageCalls ==
    {"json_properties", "get_json_data", "pdf_properties", "get_pdf",
     "store_json_data", "upload_pdf"}

\* What get_report returns, and the container it leaves.
GetAnswer(store, report_id, success, data, error, steps, errors, calls, F, wrote) ==
    [blobs |-> store,
     http |-> [handler |-> "get_report", report_id |-> report_id, filename |-> <<>>,
               content |-> "None", outcome |-> "response", success |-> success,
               data |-> data, error |-> error, steps |-> steps, errors |-> errors,
               calls |-> calls,
               faults |-> F \cap {calls[i] : i \in DOMAIN calls},
               wrote |-> wrote]]

\* get_report from the PDF: lines 186-305.
GetReportFromPdf(store, report_id, steps, errors, calls, F) ==
    Bind(report_id \o DotPdf, LAMBDA pdf_blob_name :
      IF pdf_blob_name \notin DOMAIN store \/ "pdf_properties" \in F
      THEN GetAnswer(store, report_id, FALSE, "None", "Report not found",
                     steps \o <<"Checking PDF blob">>,
                     errors \o <<"PDF blob not found or error">>,
                     calls \o <<"pdf_properties">>, F, {})
      ELSE IF "get_pdf" \in F
      THEN GetAnswer(store, report_id, FALSE, "None", "Report not found",
                     steps \o <<"Checking PDF blob", "Found PDF blob">>,
                     errors \o <<"PDF data could not be retrieved">>,
                     calls \o <<"pdf_properties", "get_pdf">>, F, {})
      ELSE
        Bind(ExtractPdf(store[pdf_blob_name]), LAMBDA extraction :
          IF extraction.status # "ok"
          THEN GetAnswer(store, report_id, FALSE, "None", "Error retrieving report",
                         steps \o <<"Checking PDF blob", "Found PDF blob",
                                    "Retrieved PDF data successfully">>,
                         errors \o <<"Error processing PDF", "Unexpected error">>,
                         calls \o <<"pdf_properties", "get_pdf", "process_pdf">>, F, {})
          ELSE
            Bind(report_id \o DotJson, LAMBDA blob_name :
              Bind("store_json_data" \notin F, LAMBDA stored :
                GetAnswer(IF stored
                          THEN DictPut(store, blob_name, ResponseData(extraction))
                          ELSE store,
                          report_id, TRUE, ResponseData(extraction), "",
                          steps \o <<"Checking PDF blob", "Found PDF blob",
                                     "Retrieved PDF data successfully",
                                     "Processed PDF successfully", "Storing JSON data",
                                     "Stored JSON data successfully">>,
                          errors,
                          calls \o <<"pdf_properties", "get_pdf", "process_pdf",
                                     "store_json_data">>,
                          F, IF stored THEN {blob_name} ELSE {})))))

\* get_report going to the PDF without a look at the stored JSON.
get_report_from_pdf_only(store, report_id, F) ==
    GetReportFromPdf(store, report_id, <<>>, <<>>, <<>>, F)

\* get_report(report_id) on the container `store`, the storage service
\* failing on the calls of F: the stored JSON first (lines 150-184), then
\* the PDF.
get_report(store, report_id, F) ==
    Bind(report_id \o DotJson, LAMBDA blob_name :
      IF blob_name \notin DOMAIN store \/ "json_properties" \in F
      THEN GetReportFromPdf(store, report_id, <<"Checking JSON blob">>,
                            <<"JSON blob not found or error", "Error getting JSON data">>,
                            <<"json_properties">>, F)
      ELSE
        Bind(IF "get_json_data" \notin F /\ IsJson(store[blob_name])
             THEN store[blob_name] ELSE "None", LAMBDA report_data :
          IF Truthy(report_data)
          THEN GetAnswer(store, report_id, TRUE, report_data, "",
                         <<"Checking JSON blob", "Found JSON blob",
                           "Retrieved JSON data successfully">>,
                         <<>>, <<"json_properties", "get_json_data">>, F, {})
          ELSE GetReportFromPdf(store, report_id,
                                <<"Checking JSON blob", "Found JSON blob">>, <<>>,
                                <<"json_properties", "get_json_data">>, F)))

\* GET /reports/{report_id}.
GetReport ==
    /\ \E report_id \in ReportIds, F \in SUBSET (StorageCalls \ {"upload_pdf"}) :
        \E answer \in {get_report(blobs, report_id, F)} :
            /\ blobs' = answer.blobs
            /\ http' = answer.http
    /\ UNCHANGED <<doc, entry, pc, measurements, consolidated, result, self, other,
                   now, reply, classified>>

\* How the POST handler ends, and the container it leaves.
PostAnswer(store, filename, report_id, contents, outcome, success, data, error, calls, F, wrote) ==
    [blobs |-> store,
     http |-> [handler |-> "process_pdf", report_id |-> report_id,
               filename |-> filename, content |-> contents, outcome |-> outcome,
               success |-> success, data |-> data, error |-> error, steps |-> <<>>,
               errors |-> <<>>, calls |-> calls,
               faults |-> F \cap {calls[i] : i \in DOMAIN calls},
               wrote |-> wrote]]

\* The except clause of the POST handler (lines 405-413): the error response
\* is returned when ProcessingResponse accepts its arguments, else the
\* ValidationError of the constructor leaves the handler.
PostCaught(store, filename, report_id, contents, error, calls, F, wrote) ==
    IF Validates(ErrorResponseKeys)
    THEN PostAnswer(store, filename, report_id, contents, "response", FALSE, "None",
                    error, calls, F, wrote)
    ELSE PostAnswer(store, filename, report_id, contents, "exception", FALSE, "None",
                    "ValidationError", calls, F, wrote)

\* The POST handler storing the JSON before it extracts.
process_pdf_storing_first(store, t, filename, report_id, contents, F) ==
    IF ~EndsWith(Lower(filename), DotPdf)
    THEN PostAnswer(store, filename, report_id, contents, "http_400", FALSE, "None",
                    "File must be a PDF", <<>>, F, {})
    ELSE
      Bind(BlobNameOf(t, report_id \o DotPdf), LAMBDA uploaded :
       Bind(report_id \o DotJson, LAMBDA json_blob_name :
        Bind(IF "store_json_data" \in F THEN store
             ELSE DictPut(store, json_blob_name, "jsonA"), LAMBDA store1 :
         Bind(IF "store_json_data" \in F THEN {} ELSE {json_blob_name}, LAMBDA w1 :
          IF "upload_pdf" \in F
          THEN PostCaught(store1, filename, report_id, contents, "upload failed",
                          <<"store_json_data", "upload_pdf">>, F, w1)
          ELSE PostCaught(DictPut(store1, uploaded, contents), filename, report_id,
                          contents, "ValidationError",
                          <<"store_json_data", "upload_pdf", "process_pdf">>, F,
                          w1 \cup {uploaded})))))

\* process_pdf(file, report_id) of main.py at second t, the storage service
\* failing on the calls of F: the suffix test, the upload, the extraction,
\* the stored JSON and the response.
process_pdf(store, t, filename, report_id, contents, F) ==
    IF ~EndsWith(Lower(filename), DotPdf)
    THEN PostAnswer(store, filename, report_id, contents, "http_400", FALSE, "None",
                    "File must be a PDF", <<>>, F, {})
    ELSE IF "upload_pdf" \in F
    THEN PostCaught(store, filename, report_id, contents, "upload failed",
                    <<"upload_pdf">>, F, {})
    ELSE
      Bind(BlobNameOf(t, report_id \o DotPdf), LAMBDA uploaded :
        Bind(DictPut(store, uploaded, contents), LAMBDA store1 :
          Bind(ExtractPdf(contents), LAMBDA extraction :
            IF extraction.status # "ok"
            THEN PostCaught(store1, filename, report_id, contents, extraction.error,
                            <<"upload_pdf", "process_pdf">>, F, {uploaded})
            ELSE
              Bind(report_id \o DotJson, LAMBDA json_blob_name :
                Bind("store_json_data" \notin F, LAMBDA stored :
                  Bind(IF stored
                       THEN DictPut(store1, json_blob_name, ResponseData(extraction))
                       ELSE store1, LAMBDA store2 :
                    Bind(IF stored THEN {uploaded, json_blob_name} ELSE {uploaded},
                         LAMBDA wrote :
                      IF Validates(ResponseDataKeys)
                      THEN PostAnswer(store2, filename, report_id, contents, "response",
                                      TRUE, ResponseData(extraction), "",
                                      <<"upload_pdf", "process_pdf", "store_json_data">>,
                                      F, wrote)
                      ELSE PostCaught(store2, filename, report_id, contents,
                                      "ValidationError",
                                      <<"upload_pdf", "process_pdf", "store_json_data">>,
                                      F, wrote))))))))

\* POST /process-pdf with a report id.
PostProcessPdf ==
    /\ \E filename \in UploadNames, contents \in Contents,
          F \in SUBSET {"upload_pdf", "store_json_data"} :
        \E answer \in {process_pdf(blobs, now, filename, GivenId, contents, F)} :
            /\ blobs' = answer.blobs
            /\ http' = answer.http
    /\ UNCHANGED <<doc, entry, pc, measurements, consolidated, result, self, other,
                   now, reply, classified>>

\* One text, stripped, in the cascade of tests of either loop: the loop over
\* the lines of _parse_areas_per_pitch and the loop over the cells of
\* DocumentIntelligence._extract_areas_per_pitch.
Classify ==
    /\ \E text \in Texts :
        classified' = [text |-> text, line |-> LineClass(Strip(text)),
                       cell |-> CellClass(Strip(text))]
    /\ UNCHANGED <<doc, entry, pc, measurements, consolidated, result, self, other,
                   blobs, now, reply, http>>

Steps ==
    \/ Return
    \/ PP_Address
    \/ PP_Scalars
    \/ PP_AreasPerPitch
    \/ PP_SuggestedWaste
    \/ PP_Validate
    \/ EB_Scalars
    \/ EB_AreasPerPitch
    \/ EB_AddressReturn

Next ==
    \/ CallProcessPdf(Documents)
    \/ CallExtractFromBytes(Documents)
    \/ Steps

Spec == Init /\ [][Next]_vars

NextPitch ==
    \/ CallProcessPdf(PitchDocuments)
    \/ CallExtractFromBytes(PitchDocuments)
    \/ Steps

SpecPitch == Init /\ [][NextPitch]_vars

NextAddress ==
    \/ CallProcessPdf(AddressDocuments)
    \/ CallExtractFromBytes(AddressDocuments)
    \/ Steps

SpecAddress == Init /\ [][NextAddress]_vars

NextWaste ==
    \/ CallProcessPdf(WasteDocuments)
    \/ PP_Address
    \/ PP_Scalars
    \/ PP_AreasPerPitch
    \/ PP_SuggestedWaste
    \/ PP_Validate
    \/ Return

SpecWaste == Init /\ [][NextWaste]_vars

NextRange ==
    \/ CallProcessPdf(RangeDocuments)
    \/ CallExtractFromBytes(RangeDocuments)
    \/ Steps

SpecRange == Init /\ [][NextRange]_vars

\* The blob operations on the one container, as time passes.
NextStorage ==
    \/ Tick
    \/ UploadPdf
    \/ GetPdf

SpecStorage == Init /\ [][NextStorage]_vars

\* The five blob operations within one second.
NextBlobs ==
    \/ UploadPdf
    \/ GetPdf
    \/ GetJsonData
    \/ DeletePdf
    \/ StoreJsonData

SpecBlobs == Init /\ [][NextBlobs]_vars

\* One call after another, of either entry point, on the reports of
\* SharedDocuments.
NextSerial ==
    \/ CallProcessPdf(SharedDocuments)
    \/ CallExtractFromBytes(SharedDocuments)
    \/ Steps

SpecSerial == Init /\ [][NextSerial]_vars

\* Two requests in flight on the one extractor of the HTTP layer.
NextShared ==
    \/ CallProcessPdf(SharedDocuments)
    \/ PP_Address
    \/ PP_Scalars
    \/ PP_AreasPerPitch
    \/ PP_SuggestedWaste
    \/ PP_Validate
    \/ Return
    \/ Switch

SpecShared == Init /\ [][NextShared]_vars

NextTables ==
    \/ CallAnalyzeDocument(TableDocuments)
    \/ DI_AreasPerPitch
    \/ DI_Return
    \/ Return

SpecTables == Init /\ [][NextTables]_vars

\* process_pdf on the reports of SectionDocuments.
NextSection ==
    \/ CallProcessPdf(SectionDocuments)
    \/ PP_Address
    \/ PP_Scalars
    \/ PP_AreasPerPitch
    \/ PP_SuggestedWaste
    \/ PP_Validate
    \/ Return

SpecSection == Init /\ [][NextSection]_vars

\* The two handlers on the one container, and a writer of JSON blobs.
NextHttp ==
    \/ GetReport
    \/ PostProcessPdf
    \/ StoreJsonData

SpecHttp == Init /\ [][NextHttp]_vars

\* The two classifications, text by text.
NextClassify == Classify

SpecClassify == Init /\ [][NextClassify]_vars

\* ------------------------------------------------------------------------
\* Properties
\* ------------------------------------------------------------------------

\* The loop over the patterns has run and did not raise.
LoopDone == pc \in {"pp_pitch", "pp_waste", "pp_validate", "eb_pitch", "eb_address"}

\* The pitch table of the call has been recovered.
TableDone == pc \in {"pp_waste", "pp_validate", "eb_address"}

\* The matches of a pattern in the document of the call.
FoundIn(measure_type) == _find_all_measurements(doc.scalars, measure_type).found

ScalarNames == MeasureNames \ {"predominant_pitch"}

HasTotalAreaMatch ==
    \E i \in 1..Len(doc.scalars) : PatternMatches("total_area", doc.scalars[i])

RECURSIVE SumSet(_)
SumSet(S) ==
    IF S = {} THEN 0
    ELSE LET x == CHOOSE y \in S : TRUE IN x + SumSet(S \ {x})

\* C1: whenever the total_area pattern has no match in the text, process_pdf
\* ends by raising and returns no record, whatever the address, the pitch
\* table and the waste section hold.
C1_NoTotalAreaRaises ==
    (pc = "done" /\ entry = "process_pdf" /\ ~HasTotalAreaMatch)
        => /\ result.status = "error"
           /\ result.record = InitialMeasurements("none")

\* A call of process_pdf that found an address, a pitch table, a waste row
\* and other scalars, but no total area, and raised.
C1_Witness ==
    /\ pc = "done" /\ entry = "process_pdf" /\ ~HasTotalAreaMatch
    /\ Len(doc.scalars) = MaxOcc
    /\ Len(FoundIn("valleys")) > 0
    /\ doc.address.matched /\ doc.pitch.has /\ doc.waste.has
    /\ result.status = "error"

\* C2: every record an entry point returns holds a present,
\* non-null total_area.
C2_SuccessHasTotalArea ==
    result.status = "ok"
        => /\ result.record.scalars["total_area"].key
           /\ result.record.scalars["total_area"].value # None

\* C3: on a text that contains
\* "Total Area (All Pitches) = 1,234 sq ft" extraction succeeds with
\* total_area 1234.0 in square feet.
C3_AllPitchesTotalArea ==
    (/\ pc = "done" /\ entry = "process_pdf"
     /\ \E i \in 1..Len(doc.scalars) : doc.scalars[i] = TotalAreaAllPitches1234)
        => /\ result.status = "ok"
           /\ result.record.scalars["total_area"].value = Num(12340)
           /\ result.record.scalars["total_area"].unit = "sq_ft"

\* C4: a scalar measurement with two or more matches is
\* consolidated to the common value when there is one distinct value and to
\* the sum of the distinct values otherwise.
C4_SumOfDistinctValues ==
    LoopDone =>
        \A m \in ScalarNames :
            LET found == FoundIn(m)
                distinct == {found[i].value.n : i \in 1..Len(found)}
            IN Len(found) >= 2 => consolidated[m].value = Num(SumSet(distinct))

\* The counts the text embeds in the matches of a pattern: the n of a
\* trailing "(n Ridges)".
EmbeddedCounts(measure_type) ==
    {doc.scalars[i].cnt : i \in {j \in 1..Len(doc.scalars) :
        PatternMatches(measure_type, doc.scalars[j]) /\ doc.scalars[j].cnt > 0}}

\* C5: the consolidated count is the largest embedded count of
\* the matches; without an embedded count it is the number of distinct
\* values when there are several matches, and absent for a single match.
C5_ConsolidatedCount ==
    LoopDone =>
        \A m \in ScalarNames :
            LET found == FoundIn(m)
                distinct == {found[i].value : i \in 1..Len(found)}
                c == consolidated[m]
            IN Len(found) >= 1 =>
                IF EmbeddedCounts(m) # {}
                THEN c.hasCount /\ c.count = MaxOf(EmbeddedCounts(m))
                ELSE IF Len(found) > 1
                THEN c.hasCount /\ c.count = Cardinality(distinct)
                ELSE ~c.hasCount

\* What C6 expects of a scalar measurement with exactly two matches.
TwoMatchRule(found, value, hasCount) ==
    IF found[1].value = found[2].value
    THEN value = found[1].value /\ ~hasCount
    ELSE value = Num(found[1].value.n + found[2].value.n)

C7_PitchNeverConsolidated ==
    (/\ pc = "done"
     /\ Len(FoundIn("predominant_pitch")) > 0
     /\ entry = "process_pdf" => HasTotalAreaMatch)
        => /\ result.status = "ok"
           /\ result.record.scalars["predominant_pitch"].value
                = FoundIn("predominant_pitch")[1].value

\* An occurrence of a scalar label whose token does not convert to a number.
Malformed(o) ==
    /\ o.label \notin PatternLabels["predominant_pitch"]
    /\ ~_clean_value(o.tok).ok

\* The text without its malformed occurrences.
WithoutMalformed(text) == SelectSeq(text, LAMBDA o : ~Malformed(o))

\* The text of the call holds a malformed occurrence.
HasMalformed == \E i \in 1..Len(doc.scalars) : Malformed(doc.scalars[i])

UnitOfName(measure_type) ==
    IF measure_type \in {"total_area", "penetrations_area"} THEN "sq_ft" ELSE "ft"

\* C9: every scalar measurement of a record process_pdf returns
\* carries the unit its name stands for.
C9_UnitFromName ==
    (pc = "done" /\ entry = "process_pdf" /\ result.status = "ok")
        => \A m \in ScalarNames :
              result.record.scalars[m].value # None
                  => result.record.scalars[m].unit = UnitOfName(m)

\* The three sequences of classified lines of the call's pitch section.
Columns ==
    Bind(SectionLines(doc.pitch.raw), LAMBDA lines :
        [pitches |-> PitchesOf(lines), areas |-> AreasOf(lines),
         percentages |-> PercentagesOf(lines)])

\* The length of the shortest of the three.
Shortest(cols) == Min3(Len(cols.pitches), Len(cols.areas), Len(cols.percentages))

\* The key under which the call's record holds a pitch.
KeyOf(pitch) == IF entry = "process_pdf" THEN ReplaceChar(pitch, "/", "_") ELSE pitch

\* The table holds exactly the rows I of the three sequences, row i under
\* the i-th pitch with the i-th area and percentage, a later row of the same
\* pitch replacing an earlier one.
TableHoldsRows(table, cols, I) ==
    /\ DOMAIN table = {KeyOf(cols.pitches[i]) : i \in I}
    /\ \A i \in I :
          (\A j \in I : j > i => cols.pitches[j] # cols.pitches[i])
              => table[KeyOf(cols.pitches[i])]
                    = [area |-> cols.areas[i], percentage |-> cols.percentages[i]]

AcceptedRows(cols) ==
    {i \in 1..Shortest(cols) :
        \E g \in {3 * ((i - 1) \div 3)} :
            /\ g + 3 <= Shortest(cols)
            /\ Abs(cols.percentages[g + 1] + cols.percentages[g + 2]
                   + cols.percentages[g + 3] - 1000) < 10}

GroupedTable ==
    IF ~doc.pitch.has THEN EmptyDict
    ELSE Bind(Columns, LAMBDA cols :
           Bind(PairUp(cols.pitches, cols.areas, cols.percentages), LAMBDA t :
             IF entry = "process_pdf" THEN PitchKeys(t) ELSE t))

\* C11: the check of the total percentage only observes.  A call of
\* process_pdf on a text with a total area returns a record, and a record
\* either entry point returns holds every entry the grouping loop built,
\* whether or not their percentages sum to within [99, 101].
C11_PercentageCheckObserves ==
    pc = "done" =>
        /\ (entry = "process_pdf" /\ HasTotalAreaMatch) => result.status = "ok"
        /\ result.status = "ok" => result.record.areas_per_pitch = GroupedTable

\* process_pdf returned a table of two entries whose percentages sum to 50.
C11_Witness ==
    /\ pc = "done" /\ entry = "process_pdf" /\ result.status = "ok"
    /\ Cardinality(DOMAIN result.record.areas_per_pitch) = 2
    /\ TotalPercentage(result.record.areas_per_pitch) = 500
    /\ PercentageCheck(result.record.areas_per_pitch).warning

\* The accumulators of the row of index r after the cells of a table, taken
\* in order, up to and with the i-th.
RECURSIVE RowUpTo(_, _, _)
RowUpTo(cells, r, i) ==
    IF i = 0 THEN NoRow
    ELSE Bind(RowUpTo(cells, r, i - 1), LAMBDA row :
           IF cells[i].row_index = r THEN ClassifyCell(row, cells[i].content) ELSE row)

\* The rows of a table that hold a pitch, an area and a percentage, by
\* row index.
CompleteRowsOf(cells) ==
    Bind([r \in {cells[i].row_index : i \in 1..Len(cells)} |->
            RowUpTo(cells, r, Len(cells))], LAMBDA rows :
      [r \in {q \in DOMAIN rows : RowComplete(rows[q])} |-> rows[r]])

\* C12: where a pitch occurs in several complete rows of the table handed
\* to the structured-table strategy, the recovered table holds, under that
\* pitch, the area and the percentage of the last of them.
C12_LastWriteWins ==
    (pc = "done" /\ entry = "analyze_document") =>
        \E rows \in {CompleteRowsOf(doc.tables[1])} :
            \A r \in DOMAIN rows :
                (/\ \E q \in DOMAIN rows : q < r /\ rows[q].pitch = rows[r].pitch
                 /\ \A q \in DOMAIN rows : q > r => rows[q].pitch # rows[r].pitch)
                    => /\ rows[r].pitch \in DOMAIN result.record.areas_per_pitch
                       /\ result.record.areas_per_pitch[rows[r].pitch]
                            = [area |-> rows[r].area, percentage |-> rows[r].percentage]

\* The waste section of the call's text, and the three sequences collected
\* from it.
WasteSection == WasteText(doc.waste.lines)
Collected(text) ==
    [percentages |-> FindAll(text, "percent"), areas |-> FindAll(text, "area"),
     squares |-> FindAll(text, "squares")]

\* The lines with a digit that precede the first line holding "Suggested".
DigitLinesBeforeSuggested(text) ==
    {i \in 1..Len(text) :
        /\ HasDigit(text[i])
        /\ \A j \in 1..i : ~HasSuggested(text[j])}

\* The waste step of process_pdf has run.
WasteDone == entry = "process_pdf" /\ (pc = "pp_validate" \/ result.status = "ok")

\* C13: a waste entry holds the percentage, the area and the squares found
\* at one index k of the three collected sequences, k the number of lines
\* with a digit before the first line holding "Suggested"; 10%, 15%, 20%
\* with areas 100, 150, 200 and squares 1.0, 1.5, 2.0, the second row
\* marked, give 15, 150 and 1.5.
C13_WasteAtSuggestedIndex ==
    (WasteDone /\ doc.waste.has) =>
        /\ measurements.waste.present =>
             \E text \in {WasteSection} : \E seqs \in {Collected(text)} :
             \E k \in {Cardinality(DigitLinesBeforeSuggested(text)) + 1} :
                /\ \E i \in 1..Len(text) : HasSuggested(text[i])
                /\ k <= Len(seqs.percentages) /\ k <= Len(seqs.areas)
                /\ k <= Len(seqs.squares)
                /\ measurements.waste.percentage = FloatTenths(seqs.percentages[k])
                /\ measurements.waste.area = FloatTenths(Remove(seqs.areas[k], ","))
                /\ measurements.waste.squares = FloatTenths(seqs.squares[k])
        /\ doc.waste = WasteSecondRow =>
             /\ measurements.waste.present
             /\ measurements.waste.percentage = 150
             /\ measurements.waste.area = 1500
             /\ measurements.waste.squares = 15

\* process_pdf returned the waste entry of the marked second row.
C13_Witness ==
    /\ pc = "done" /\ entry = "process_pdf" /\ result.status = "ok"
    /\ doc.waste = WasteSecondRow
    /\ result.record.waste.present /\ result.record.waste.percentage = 150
    /\ result.record.waste.area = 1500 /\ result.record.waste.squares = 15

\* The record process_pdf builds on the call's text without its waste
\* section, up to the waste step.
WithoutWaste ==
    Bind(ScalarLoop("process_pdf", doc.scalars), LAMBDA loop :
      [scalars |-> loop.scalars,
       areas_per_pitch |-> PitchKeys(_parse_areas_per_pitch(doc.pitch)),
       address |-> _extract_address(doc.address),
       waste |-> NoWasteData])

\* The index is in range for the three sequences of the call's section.
IndexInRange ==
    \E text \in {WasteSection} : \E seqs \in {Collected(text)} :
    \E k \in {SuggestedIndex(text) + 1} :
        /\ k >= 1 /\ k <= Len(seqs.percentages)
        /\ k <= Len(seqs.areas) /\ k <= Len(seqs.squares)

\* C14: _parse_suggested_waste never raises.  No call of process_pdf ends
\* with an error of the waste step; where the index is out of range for one
\* of the three sequences the waste entry is absent; and the scalars, the
\* address and the pitch table are those of the text without the section.
C14_WasteNeverRaises ==
    /\ pc = "done" => result.error # "IndexError: list index out of range"
    /\ (WasteDone /\ doc.waste.has) =>
        /\ ~measurements.waste.raised
        /\ ~IndexInRange => measurements.waste = NoWasteData
        /\ [measurements EXCEPT !.waste = NoWasteData] = WithoutWaste

\* process_pdf returned a record without a waste entry for a section whose
\* index is in range for the percentages and out of range for the areas.
C14_Witness ==
    /\ pc = "done" /\ entry = "process_pdf" /\ result.status = "ok"
    /\ doc.waste.has /\ ~result.record.waste.present
    /\ \E text \in {WasteSection} : \E seqs \in {Collected(text)} :
          /\ SuggestedIndex(text) >= 0
          /\ SuggestedIndex(text) < Len(seqs.percentages)
          /\ SuggestedIndex(text) >= Len(seqs.areas)
    /\ result.record.scalars["total_area"].value = Num(12340)

\* C15: a text without "Areas per Pitch" gives an empty pitch table, a
\* text without "Waste Calculation" gives no waste entry, and process_pdf
\* still returns a record whenever the total area matched.
C15_MissingSectionsRecovered ==
    (pc = "done" /\ entry = "process_pdf") =>
        /\ (HasTotalAreaMatch /\ (~doc.pitch.has \/ ~doc.waste.has))
              => result.status = "ok"
        /\ result.status = "ok" =>
              /\ ~doc.pitch.has => result.record.areas_per_pitch = EmptyDict
              /\ ~doc.waste.has => ~result.record.waste.present

\* process_pdf returned a record with the total area for a text with
\* neither section.
C15_Witness ==
    /\ pc = "done" /\ entry = "process_pdf" /\ result.status = "ok"
    /\ ~doc.pitch.has /\ ~doc.waste.has
    /\ result.record.scalars["total_area"].value = Num(12340)
    /\ result.record.areas_per_pitch = EmptyDict /\ ~result.record.waste.present

\* C16: the address is all or nothing and never an error.  A record holds
\* the four trimmed groups of the match, or none of the four fields when
\* the pattern does not match; process_pdf returns a record whenever the
\* total area matched; and "123 Main St, Springfield, IL 62704" gives
\* "123 Main St", "Springfield", "IL" and "62704".
C16_AddressAllOrNothing ==
    pc = "done" =>
        /\ (entry = "process_pdf" /\ HasTotalAreaMatch) => result.status = "ok"
        /\ result.status = "ok" =>
            /\ doc.address.matched =>
                 result.record.address =
                    [present |-> TRUE,
                     street_address |-> Strip(doc.address.groups[1]),
                     city |-> Strip(doc.address.groups[2]),
                     state |-> Strip(doc.address.groups[3]),
                     zip_code |-> Strip(doc.address.groups[4])]
            /\ ~doc.address.matched => result.record.address = NoAddress
            /\ doc.address = AddressSearch(ExampleAddressText) =>
                 /\ result.record.address.street_address
                      = <<"1", "2", "3", " ", "M", "a", "i", "n", " ", "S", "t">>
                 /\ result.record.address.city
                      = <<"S", "p", "r", "i", "n", "g", "f", "i", "e", "l", "d">>
                 /\ result.record.address.state = <<"I", "L">>
                 /\ result.record.address.zip_code = <<"6", "2", "7", "0", "4">>

\* process_pdf returned the trimmed groups of
\* " 123 Main St,  Springfield , IL  62704-1234".
C16_Witness ==
    /\ pc = "done" /\ entry = "process_pdf" /\ result.status = "ok"
    /\ doc.address = MainStreet
    /\ result.record.address.present
    /\ result.record.address.street_address
         = <<"1", "2", "3", " ", "M", "a", "i", "n", " ", "S", "t">>
    /\ result.record.address.city
         = <<"S", "p", "r", "i", "n", "g", "f", "i", "e", "l", "d">>
    /\ result.record.address.zip_code
         = <<"6", "2", "7", "0", "4", "-", "1", "2", "3", "4">>

\* C17: extraction is deterministic and history-independent: however many
\* calls the extractor has served before, a finished call on a document has
\* the outcome (the record, or the failure) that a newly constructed
\* extractor gives for that entry point and that document.
C17_HistoryIndependent ==
    pc = "done" => result = RunAlone(entry, doc)

\* A process_pdf call that returned a record with an address, a pitch table
\* and a suggested waste.
C17_Witness ==
    /\ pc = "done" /\ entry = "process_pdf" /\ result.status = "ok"
    /\ result.record.address.present
    /\ result.record.areas_per_pitch # EmptyDict
    /\ result.record.waste.present
    /\ result = RunAlone("process_pdf", doc)

\* C18: no step of an extraction writes the pattern table or the address
\* pattern, and under every interleaving of two process_pdf calls on the one
\* shared extractor each call ends with the outcome it has when run alone.
C18_InterleavedAsAlone ==
    /\ self = Extractor
    /\ pc = "done" => result = RunAlone(entry, doc)
    /\ \A i \in DOMAIN other :
          other[i].pc = "done" => other[i].result = RunAlone(other[i].entry, other[i].doc)

\* A call has returned a record while a call on another document is
\* suspended half-way, with its own address and values.
C18_Witness ==
    /\ pc = "done" /\ result.status = "ok"
    /\ result.record.address.present
    /\ other # <<>>
    /\ other[1].pc = "pp_waste"
    /\ other[1].doc # doc
    /\ ~other[1].measurements.address.present
    /\ other[1].measurements.scalars # result.record.scalars
    /\ result = RunAlone("process_pdf", doc)

\* C19: every entry of a recovered pitch table has a non-negative area and
\* a percentage between 0 and 100 inclusive.
C19_EntriesInRange ==
    TableDone =>
        \A k \in DOMAIN measurements.areas_per_pitch :
            /\ measurements.areas_per_pitch[k].area >= 0
            /\ measurements.areas_per_pitch[k].percentage >= 0
            /\ measurements.areas_per_pitch[k].percentage <= 1000

\* C20: upload_pdf stores the content under the filename it is given, so
\* that, the storage service not failing, get_pdf of that filename right
\* after the upload returns that content.
C20_UploadThenGet ==
    [][(/\ reply.op = "upload_pdf" /\ reply.status = "ok"
        /\ reply'.op = "get_pdf" /\ reply'.name = reply.name /\ ~reply'.fault)
       => reply'.value = reply.content]_vars

\* C21: get_pdf, get_json_data, delete_pdf and store_json_data never raise:
\* when the storage service fails, get_pdf and get_json_data return None and
\* delete_pdf and store_json_data return False; upload_pdf alone lets the
\* failure out to its caller.
C21_OnlyUploadRaises ==
    /\ reply.op \in {"get_pdf", "get_json_data", "delete_pdf", "store_json_data"}
          => reply.status = "returned"
    /\ (reply.op \in {"get_pdf", "get_json_data"} /\ reply.fault) => reply.value = "None"
    /\ (reply.op \in {"delete_pdf", "store_json_data"} /\ reply.fault)
          => reply.value = "False"
    /\ (reply.op = "upload_pdf" /\ reply.fault) => reply.status = "raised"

\* The service fails while get_pdf reads a blob that is in the container.
C21_Witness ==
    /\ reply.op = "get_pdf" /\ reply.fault
    /\ reply.name \in DOMAIN blobs
    /\ reply.status = "returned" /\ reply.value = "None"

\* C22: in the structured-table strategy every row of the table that holds
\* a pitch, an area and a percentage has an entry in the recovered table,
\* the last row included.
C22_EveryCompleteRow ==
    (pc = "done" /\ entry = "analyze_document") =>
        \E rows \in {CompleteRowsOf(doc.tables[1])} :
            \A r \in DOMAIN rows :
                rows[r].pitch \in DOMAIN result.record.areas_per_pitch

\* C23: the two strategies are tried in order and the first success wins:
\* when the structured-table strategy yields an entry the result is exactly
\* its entries, and the line heuristic gives the result only when the
\* structured-table strategy yields none.
C23_FirstSuccessWins ==
    (pc = "done" /\ entry = "analyze_document") =>
        \E fromTables \in {TableLoop(doc.tables, Len(doc.tables))} :
            IF fromTables # EmptyDict
            THEN result.record.areas_per_pitch = fromTables
            ELSE result.record.areas_per_pitch = ContentStrategy(doc.pitch)

\* The table yields an entry and the content holds a section with a pitch
\* of its own, which the result does not hold.
C23_Witness ==
    /\ pc = "done" /\ entry = "analyze_document"
    /\ doc.pitch.has
    /\ ContentStrategy(doc.pitch) # EmptyDict
    /\ result.record.areas_per_pitch # EmptyDict
    /\ \E k \in DOMAIN ContentStrategy(doc.pitch) :
          k \notin DOMAIN result.record.areas_per_pitch

\* The index of the first line that holds "Structure Complexity" or "Waste
\* Calculation", or one past the last line.
MarkerAt(raw) ==
    Bind({k \in 1..Len(raw) : \/ HasSubstring(raw[k], StructureComplexityMarker)
                              \/ HasSubstring(raw[k], WasteCalculationMarker)},
         LAMBDA marks : IF marks = {} THEN Len(raw) + 1 ELSE MinOf(marks))

\* The stripped, non-empty lines before the first marker line.
LinesBeforeMarker(raw) ==
    Bind(SubSeq(raw, 1, MarkerAt(raw) - 1), LAMBDA sec :
      Bind([i \in 1..Len(sec) |-> Strip(sec[i])], LAMBDA stripped :
        SelectSeq(stripped, LAMBDA l : Len(l) > 0)))

\* C24: the pitch-table section ends exactly at the first "Structure
\* Complexity" or "Waste Calculation" line: the pitches, areas and
\* percentages collected are those of the lines before that line, all of
\* them and no other.
C24_SectionEndsAtMarker ==
    (entry = "process_pdf" /\ pc = "pp_waste" /\ doc.pitch.has) =>
        \E lines \in {SectionLines(doc.pitch.raw)} :
        \E kept \in {LinesBeforeMarker(doc.pitch.raw)} :
            /\ PitchesOf(lines) = PitchesOf(kept)
            /\ AreasOf(lines) = AreasOf(kept)
            /\ PercentagesOf(lines) = PercentagesOf(kept)

\* C25: the line heuristic and the structured-table strategy give every
\* trimmed text the same class among pitch, percentage, area and none.
C25_SameClass == classified.line = classified.cell

\* The step is one run of get_report: the answer in http' is the one the
\* handler gives on the container before the step.
GetStep ==
    /\ http'.handler = "get_report"
    /\ \E answer \in {get_report(blobs, http'.report_id, http'.faults)} :
        http' = answer.http /\ blobs' = answer.blobs

\* The calls made in the answered request.
Called(h) == {h.calls[i] : i \in DOMAIN h.calls}

\* C26: GET /reports/{report_id} consults the stored JSON first.  When
\* "<report_id>.json" exists, is read without a failure and is not empty,
\* the response is its content with success true and neither get_pdf, the
\* extractor nor store_json_data is called; the PDF is processed only when
\* the JSON is missing, unreadable or empty; and every request is answered
\* with a body, with success false when no data was obtained.
C26_JsonFirst ==
    [][GetStep =>
        \E blob_name \in {http'.report_id \o DotJson} :
        \E readable \in {/\ blob_name \in DOMAIN blobs
                         /\ http'.faults \cap {"json_properties", "get_json_data"} = {}
                         /\ IsJson(blobs[blob_name])
                         /\ blobs[blob_name] # EmptyJson} :
            /\ readable =>
                  /\ http'.success /\ http'.data = blobs[blob_name]
                  /\ Called(http') \cap {"pdf_properties", "get_pdf", "process_pdf",
                                         "store_json_data"} = {}
                  /\ blobs' = blobs
            /\ "process_pdf" \in Called(http') => ~readable
            /\ http'.outcome = "response"
            /\ http'.success <=> http'.data # "None"
            /\ ~http'.success => http'.error # ""]_vars

\* A report whose PDF is in the container is answered from its stored JSON.
C26_Witness ==
    /\ http.handler = "get_report" /\ http.success
    /\ http.calls = <<"json_properties", "get_json_data">>
    /\ (http.report_id \o DotPdf) \in DOMAIN blobs
    /\ (http.report_id \o DotJson) \in DOMAIN blobs
    /\ http.data = blobs[http.report_id \o DotJson]

\* The step is an upload_pdf that the storage service accepted.
UploadStep ==
    /\ reply'.op = "upload_pdf" /\ reply'.status = "ok"
    /\ blobs' = DictPut(blobs, BlobNameOf(now, reply'.name), reply'.content)

\* C27: upload_pdf gives every upload a blob name of its own: the name of
\* an upload is the name of no blob an earlier upload wrote, and no upload
\* changes the content another upload stored.
C27_UniqueBlobNames ==
    [][UploadStep =>
        /\ BlobNameOf(now, reply'.name) \notin DOMAIN blobs
        /\ \A n \in DOMAIN blobs : blobs'[n] = blobs[n]]_vars

\* The step is one run of the POST handler on a file named *.pdf.
PostPdfStep ==
    /\ http'.handler = "process_pdf"
    /\ EndsWith(Lower(http'.filename), DotPdf)
    /\ \E answer \in {process_pdf(blobs, now, http'.filename, http'.report_id,
                                  http'.content, http'.faults)} :
        http' = answer.http /\ blobs' = answer.blobs

\* C28: POST /process-pdf with a .pdf filename always answers with a
\* ProcessingResponse, with success true when the upload, the extraction
\* and the JSON storage succeeded and with success false and the error
\* when one of them raised: no exception leaves the handler.
C28_AlwaysAnswers ==
    [][PostPdfStep =>
        /\ http'.outcome = "response"
        /\ http'.success <=> (/\ "upload_pdf" \notin http'.faults
                              /\ ExtractPdf(http'.content).status = "ok")
        /\ ~http'.success => http'.error # ""]_vars

\* The step is one run of the POST handler, whatever the filename.
PostStep ==
    /\ http'.handler = "process_pdf"
    /\ \E answer \in {process_pdf(blobs, now, http'.filename, http'.report_id,
                                  http'.content, http'.faults)} :
        http' = answer.http /\ blobs' = answer.blobs

\* The blobs of the given names, as a dictionary.
Restricted(store, names) == [n \in DOMAIN store \cap names |-> store[n]]

\* C29: in POST /process-pdf the effects come in the order upload, extract,
\* store.  When the extraction raises, no "<report_id>.json" blob is written
\* or changed and the PDF uploaded by the request is in the container; a
\* filename that does not end in .pdf is rejected before any call of the
\* storage or of the extractor.
C29_UploadExtractStore ==
    [][PostStep =>
        \E json_blob_name \in {http'.report_id \o DotJson} :
        \E uploaded \in {BlobNameOf(now, http'.report_id \o DotPdf)} :
            /\ http'.calls \in {<<>>, <<"upload_pdf">>, <<"upload_pdf", "process_pdf">>,
                                <<"upload_pdf", "process_pdf", "store_json_data">>}
            /\ ~EndsWith(Lower(http'.filename), DotPdf) =>
                  /\ http'.outcome = "http_400"
                  /\ http'.calls = <<>>
                  /\ blobs' = blobs
            /\ (/\ EndsWith(Lower(http'.filename), DotPdf)
                /\ "upload_pdf" \notin http'.faults
                /\ ExtractPdf(http'.content).status # "ok") =>
                  /\ Restricted(blobs', {json_blob_name}) = Restricted(blobs, {json_blob_name})
                  /\ "store_json_data" \notin Called(http')
                  /\ uploaded \in DOMAIN blobs'
                  /\ blobs'[uploaded] = http'.content]_vars

\* The extraction of a posted PDF raised: the PDF is in the container and no
\* JSON blob of the report is.
C29_Witness ==
    /\ http.handler = "process_pdf"
    /\ http.calls = <<"upload_pdf", "process_pdf">>
    /\ ExtractPdf(http.content).status = "error"
    /\ BlobNameOf(now, http.report_id \o DotPdf) \in DOMAIN blobs
    /\ (http.report_id \o DotJson) \notin DOMAIN blobs

\* C30: success is reported for the JSON storage only when the JSON was
\* stored: get_report holds the step "Stored JSON data successfully" only
\* if store_json_data wrote "<report_id>.json", and the POST handler
\* answers with success true only if it wrote that blob.
C30_StoredMeansStored ==
    /\ (/\ http.handler = "get_report"
        /\ \E i \in DOMAIN http.steps : http.steps[i] = "Stored JSON data successfully")
          => (http.report_id \o DotJson) \in http.wrote
    /\ (http.handler = "process_pdf" /\ http.outcome = "response" /\ http.success)
          => (http.report_id \o DotJson) \in http.wrote

====
